---- MODULE Spec2Model ----
(***************************************************************************)
(* Model of the colour-vision-deficiency backend                           *)
(* (src/backend/dalton_lens_utils.py, main.py, realtime_filter_methods.py).*)
(*                                                                         *)
(* Numbers.  Severities are held in hundredths (0.15 is 15), question      *)
(* weights in tenths (0.1 is 1, 1.0 is 10), 8-bit channel values as        *)
(* 0..255.  Floating-point results are computed exactly as rationals; a     *)
(* result whose exact value lies on a rounding boundary is a choice between *)
(* the two neighbours, because the binary floating-point value the code     *)
(* holds there falls on either side.                                        *)
(***************************************************************************)
EXTENDS Integers, Sequences, FiniteSets, TLC

VARIABLES
    questions,   \* the question list handed to analyze_test_results / stored in a test
    analysis,    \* the dict returned by analyze_test_results, or None
    phase,       \* position of the scenario that is running
    status,      \* HTTP status of the last request handled (0 before the first)
    request,     \* the arguments of the image operation that is called
    response,    \* what that operation returned or raised, or None
    files,       \* the content of the test image directory
    services     \* the module-level objects of main.py: whether color_processor holds a
                 \* GAN generator and whether the processor class is patched; or None

vars == <<questions, analysis, phase, status, request, response, files, services>>

None == <<>>
Some(x) == <<x>>

Min(a, b) == IF a < b THEN a ELSE b
Max(a, b) == IF a > b THEN a ELSE b

(***************************************************************************)
(* Bounds of the model.                                                    *)
(***************************************************************************)
MaxLen == 3          \* longest question list handed to analyze_test_results
MaxCount == 10       \* largest count requested from generate_test_questions
MaxPixels == 1       \* largest number of pixels of an image
SeverityScale == 4   \* apply_cvd_filter is called with severities k / SeverityScale

(***************************************************************************)
(* Deficiency types and questions.                                         *)
(***************************************************************************)
DeficiencyTypes == <<"protanopia", "deuteranopia", "tritanopia">>
DeficiencyTypeSet == {DeficiencyTypes[i] : i \in 1..Len(DeficiencyTypes)}

\* f"{filter_type}_specific"
SpecificTag(t) == t \o "_specific"

\* A filter_type that is none of the three keys of `scores`
UnknownType == "achromatopsia"

\* The (filter_type, correct_answer, difficulty_level, question_type) combinations
\* generate_test_questions builds, and a question of an unrecognised filter_type.
IdenticalQuestion(t) ==
    [filter_type |-> t, correct_answer |-> TRUE,
     difficulty_level |-> "identical", question_type |-> "identical"]
SpecificQuestion(t) ==
    [filter_type |-> t, correct_answer |-> FALSE,
     difficulty_level |-> "cvd_confusion", question_type |-> SpecificTag(t)]
QuestionKinds ==
    {IdenticalQuestion(t) : t \in DeficiencyTypeSet \cup {UnknownType}}
        \cup {SpecificQuestion(t) : t \in DeficiencyTypeSet}

Responses == {None, Some(TRUE), Some(FALSE)}

WithResponse(k, r) ==
    [filter_type |-> k.filter_type, correct_answer |-> k.correct_answer,
     difficulty_level |-> k.difficulty_level, question_type |-> k.question_type,
     user_response |-> r]

AnsweredQuestions == {WithResponse(k, r) : k \in QuestionKinds, r \in Responses}

RECURSIVE SeqsUpTo(_, _)
SeqsUpTo(S, n) ==
    IF n = 0 THEN {<<>>}
    ELSE LET shorter == SeqsUpTo(S, n - 1)
         IN  shorter \cup {Append(s, x) : s \in {t \in shorter : Len(t) = n - 1}, x \in S}

(***************************************************************************)
(* CVDAnalyzer.analyze_test_results                                        *)
(***************************************************************************)
\* intensity_weights.get(difficulty_level, 0.1), in tenths
intensity_weights(difficulty_level) ==
    IF difficulty_level = "cvd_confusion" THEN 10 ELSE 1

EmptyScore ==
    [total_weight |-> 0, error_weight |-> 0, confusion_errors |-> 0, specific_questions |-> 0]

InitialScores == [t \in DeficiencyTypeSet |-> EmptyScore]

\* The comparison turned round: user_response == correct_answer counted as the error.
IsError_Inverted(q) == q.user_response = Some(q.correct_answer)

\* user_response != correct_answer
IsError(q) == q.user_response # Some(q.correct_answer)

\* The test 'user_response is not None' left out: an unanswered question is
\* scored as an answer that differs from correct_answer.
ScoreQuestion_CountingUnanswered(scores, q) ==
    IF q.filter_type \notin DOMAIN scores
    THEN scores
    ELSE LET t == q.filter_type
             weight == intensity_weights(q.difficulty_level)
             specific == q.question_type = SpecificTag(t)
             old == scores[t]
         IN  [scores EXCEPT ![t] =
                [total_weight |-> old.total_weight + weight,
                 specific_questions |-> old.specific_questions + (IF specific THEN 1 ELSE 0),
                 error_weight |-> old.error_weight + (IF IsError(q) THEN weight ELSE 0),
                 confusion_errors |-> old.confusion_errors +
                    (IF IsError(q) /\ q.difficulty_level = "cvd_confusion" /\ specific
                     THEN 1 ELSE 0)]]

\* The error charged to every type instead of scores[filter_type] alone.
ScoreQuestion_ErrorChargedToAll(scores, q) ==
    IF q.user_response = None \/ q.filter_type \notin DOMAIN scores
    THEN scores
    ELSE LET t == q.filter_type
             weight == intensity_weights(q.difficulty_level)
             specific == q.question_type = SpecificTag(t)
         IN  [u \in DOMAIN scores |->
                [total_weight |-> scores[u].total_weight + (IF u = t THEN weight ELSE 0),
                 specific_questions |-> scores[u].specific_questions +
                    (IF u = t /\ specific THEN 1 ELSE 0),
                 error_weight |-> scores[u].error_weight + (IF IsError(q) THEN weight ELSE 0),
                 confusion_errors |-> scores[u].confusion_errors +
                    (IF u = t /\ IsError(q) /\ q.difficulty_level = "cvd_confusion" /\ specific
                     THEN 1 ELSE 0)]]

\* One iteration of the loop over the questions.
ScoreQuestion(scores, q) ==
    IF q.user_response = None \/ q.filter_type \notin DOMAIN scores
    THEN scores
    ELSE LET t == q.filter_type
             weight == intensity_weights(q.difficulty_level)
             specific == q.question_type = SpecificTag(t)
             old == scores[t]
         IN  [scores EXCEPT ![t] =
                [total_weight |-> old.total_weight + weight,
                 specific_questions |-> old.specific_questions + (IF specific THEN 1 ELSE 0),
                 error_weight |-> old.error_weight + (IF IsError(q) THEN weight ELSE 0),
                 confusion_errors |-> old.confusion_errors +
                    (IF IsError(q) /\ q.difficulty_level = "cvd_confusion" /\ specific
                     THEN 1 ELSE 0)]]

RECURSIVE AccumulateScores(_, _)
AccumulateScores(scores, qs) ==
    IF qs = <<>> THEN scores
    ELSE AccumulateScores(ScoreQuestion(scores, Head(qs)), Tail(qs))

\* round(x, 2) of the value num/den hundredths: the nearest hundredth, either
\* neighbour when the exact value is half-way between two.
RoundHundredths(num, den) ==
    LET q == num \div den
        r == num % den
    IN  IF 2 * r < den THEN {q}
        ELSE IF 2 * r > den THEN {q + 1}
        ELSE {q, q + 1}

\* The penalty subtracted instead of added (severity -= rate * 0.05).
UncappedSeverity_Subtracting(score_data) ==
    LET base == IF score_data.specific_questions > 0 /\ score_data.confusion_errors > 0
                THEN 15 ELSE 0
    IN  IF score_data.total_weight > 0
        THEN <<base * score_data.total_weight - 5 * score_data.error_weight,
               score_data.total_weight>>
        ELSE <<base, 1>>

\* The penalty doubled (severity += rate * 0.10).
UncappedSeverity_DoubledPenalty(score_data) ==
    LET base == IF score_data.specific_questions > 0 /\ score_data.confusion_errors > 0
                THEN 15 ELSE 0
    IN  IF score_data.total_weight > 0
        THEN <<base * score_data.total_weight + 10 * score_data.error_weight,
               score_data.total_weight>>
        ELSE <<base, 1>>

\* Severity of one type as the exact fraction <<numerator, denominator>> of
\* hundredths, before the cap:
\*   severity = 0.15 if a specific question was failed, else 0.0
\*   severity += error_weight / total_weight * 0.05
UncappedSeverity(score_data) ==
    LET base == IF score_data.specific_questions > 0 /\ score_data.confusion_errors > 0
                THEN 15 ELSE 0
    IN  IF score_data.total_weight > 0
        THEN <<base * score_data.total_weight + 5 * score_data.error_weight,
               score_data.total_weight>>
        ELSE <<base, 1>>

\* severity = min(0.2, severity); round(severity, 2): the values the code can store
TypeSeverity(score_data) ==
    LET s == UncappedSeverity(score_data)
    IN  IF s[1] > 20 * s[2] THEN {20} ELSE RoundHundredths(s[1], s[2])

\* The thresholds rescaled to the 0.2 cap: 0.03, 0.07 and 0.13.
OverallSeverity_RescaledThresholds(max_severity) ==
    IF max_severity < 3 THEN "none"
    ELSE IF max_severity < 7 THEN "mild"
    ELSE IF max_severity < 13 THEN "moderate"
    ELSE "severe"

OverallSeverity(max_severity) ==
    IF max_severity < 15 THEN "none"
    ELSE IF max_severity < 35 THEN "mild"
    ELSE IF max_severity < 65 THEN "moderate"
    ELSE "severe"

Max3(a, b, c) == Max(a, Max(b, c))

\* The result dict for one choice of the three rounded severities.
AnalysisResult(p, d, t) ==
    [protanopia |-> p, deuteranopia |-> d, tritanopia |-> t,
     no_blindness |-> IF Max3(p, d, t) < 10 THEN 1 ELSE 0,
     overall_severity |-> OverallSeverity(Max3(p, d, t))]

\* Every result analyze_test_results can return for the question list qs.
analyze_test_results(qs) ==
    LET scores == AccumulateScores(InitialScores, qs)
    IN  {AnalysisResult(p, d, t) :
            p \in TypeSeverity(scores["protanopia"]),
            d \in TypeSeverity(scores["deuteranopia"]),
            t \in TypeSeverity(scores["tritanopia"])}

(***************************************************************************)
(* SpecScore: analyze_test_results applied to every question list of up to  *)
(* MaxLen questions.                                                        *)
(***************************************************************************)
InitScore ==
    /\ questions \in SeqsUpTo(AnsweredQuestions, MaxLen)
    /\ analysis = None
    /\ phase = "input"
    /\ status = 0
    /\ request = None
    /\ response = None
    /\ files = {}
    /\ services = None

Analyze ==
    /\ phase = "input"
    /\ \E result \in analyze_test_results(questions) : analysis' = Some(result)
    /\ phase' = "analyzed"
    /\ UNCHANGED <<questions, status, request, response, files, services>>

NextScore == Analyze

SpecScore == InitScore /\ [][NextScore]_vars

(***************************************************************************)
(* ColorVisionTestGenerator.generate_test_questions and the test endpoints  *)
(* of main.py that store a battery, attach responses and score it.          *)
(***************************************************************************)
\* test_structure: 7 identical, then one specific question per type
test_structure ==
    [i \in 1..7 |-> "identical"]
        \o <<"protanopia_specific", "deuteranopia_specific", "tritanopia_specific">>

\* test_structure[i % len(test_structure)] for the 0-based index i
StructureAt(i) == test_structure[(i % Len(test_structure)) + 1]

\* The 0-based indices whose question is 'identical': the ones for which
\* random.choice(deficiency_types) is drawn.
IdenticalIndices(count) == {i \in 0..(count - 1) : StructureAt(i) = "identical"}

\* question_type.replace('_specific', '')
SpecificTypeOf(question_type) ==
    CHOOSE t \in DeficiencyTypeSet : SpecificTag(t) = question_type

\* The question built in iteration i (0-based); drawn is the type
\* random.choice returned when the question is an identical one.
GeneratedQuestion(i, drawn) ==
    LET question_type == StructureAt(i)
        kind == IF question_type = "identical"
                THEN IdenticalQuestion(drawn)
                ELSE SpecificQuestion(SpecificTypeOf(question_type))
    IN  [question_id |-> <<i + 1, kind.filter_type>>,
         filter_type |-> kind.filter_type,
         correct_answer |-> kind.correct_answer,
         difficulty_level |-> kind.difficulty_level,
         question_type |-> question_type,
         user_response |-> None]

\* generate_test_questions(count), given the types drawn for the identical questions
generate_test_questions(count, draws) ==
    [n \in 1..count |->
        GeneratedQuestion(n - 1, IF (n - 1) \in DOMAIN draws
                                 THEN draws[n - 1] ELSE DeficiencyTypes[1])]

\* submit_test_response: the first question with the given id receives the response
submit_test_response(qs, question_id, user_response) ==
    LET matches == {i \in 1..Len(qs) : qs[i].question_id = question_id}
        first == CHOOSE i \in matches : \A j \in matches : i <= j
    IN  [qs EXCEPT ![first].user_response = Some(user_response)]

\* The respondent of the end-to-end scenario: identical questions answered
\* correctly, specific (cvd_confusion) questions answered incorrectly.
ScriptedResponse(q) ==
    IF q.difficulty_level = "identical" THEN q.correct_answer ELSE ~q.correct_answer

Unanswered(qs) == {i \in 1..Len(qs) : qs[i].user_response = None}

InitBattery ==
    /\ questions = <<>>
    /\ analysis = None
    /\ phase = "idle"
    /\ status = 0
    /\ request = None
    /\ response = None
    /\ files = {}
    /\ services = None

\* GET /api/v1/color-test/questions
GetTestQuestions ==
    /\ phase = "idle"
    /\ \E count \in 1..MaxCount :
        \E draws \in [IdenticalIndices(count) -> DeficiencyTypeSet] :
            questions' = generate_test_questions(count, draws)
    /\ phase' = "stored"
    /\ status' = 200
    /\ UNCHANGED <<analysis, request, response, files, services>>

\* POST /api/v1/color-test/response, sent by the scripted respondent for the
\* next question it has not answered yet
SubmitTestResponse ==
    /\ phase = "stored"
    /\ Unanswered(questions) # {}
    /\ LET next == CHOOSE i \in Unanswered(questions) :
                        \A j \in Unanswered(questions) : i <= j
           q == questions[next]
       IN  questions' = submit_test_response(questions, q.question_id, ScriptedResponse(q))
    /\ status' = 200
    /\ UNCHANGED <<analysis, phase, request, response, files, services>>

\* POST /api/v1/color-test/complete/{test_id}
CompleteTest ==
    /\ phase = "stored"
    /\ IF \A i \in 1..Len(questions) : questions[i].user_response = None
       THEN \* "No questions have been answered", re-raised as a 500
            /\ status' = 500
            /\ UNCHANGED <<questions, analysis, phase>>
       ELSE /\ \E result \in analyze_test_results(questions) : analysis' = Some(result)
            /\ phase' = "completed"
            /\ status' = 200
            /\ UNCHANGED questions
    /\ UNCHANGED <<request, response, files, services>>

NextBattery == GetTestQuestions \/ SubmitTestResponse \/ CompleteTest

SpecBattery == InitBattery /\ [][NextBattery]_vars

(***************************************************************************)
(* SpecResponses: a stored test that any client may send responses for and  *)
(* complete, in any order.  services.now is the reading of the clock.       *)
(***************************************************************************)
MaxStored == 2     \* largest battery of a stored test
MaxClock == 4      \* the clock readings are 1..MaxClock

\* the question as generate_test_questions stores it, with 'timestamp': None
Stored(qs) == [i \in 1..Len(qs) |-> qs[i] @@ [timestamp |-> None]]

UnknownQuestionId == <<0, "none">>
QuestionIds(qs) == {qs[i].question_id : i \in 1..Len(qs)}

\* the loop of submit_test_response with the timestamp it writes
record_response(qs, question_id, user_response, now) ==
    LET matches == {i \in 1..Len(qs) : qs[i].question_id = question_id}
        first == CHOOSE i \in matches : \A j \in matches : i <= j
    IN  [submit_test_response(qs, question_id, user_response)
            EXCEPT ![first].timestamp = Some(now)]

InitResponses ==
    /\ \E count \in 1..MaxStored :
        \E draws \in [IdenticalIndices(count) -> DeficiencyTypeSet] :
            questions = Stored(generate_test_questions(count, draws))
    /\ analysis = None
    /\ phase = "stored"
    /\ status = 200
    /\ request = None
    /\ response = None
    /\ files = {}
    /\ services = [now |-> 1]

\* POST /api/v1/color-test/response; the handler does not look at the
\* 'completed' flag of the test
SubmitResponse ==
    /\ phase \in {"stored", "completed"}
    /\ services.now < MaxClock
    /\ \E question_id \in QuestionIds(questions) \cup {UnknownQuestionId},
          user_response \in BOOLEAN :
        /\ request' = Some([question_id |-> question_id, user_response |-> user_response])
        /\ IF question_id \in QuestionIds(questions)
           THEN /\ questions' = record_response(questions, question_id,
                                                user_response, services.now)
                /\ status' = 200
           ELSE \* "Question not found", re-raised as a 500
                /\ status' = 500
                /\ UNCHANGED questions
    /\ services' = [now |-> services.now + 1]
    /\ UNCHANGED <<analysis, phase, response, files>>

\* POST /api/v1/color-test/complete/{test_id}
CompleteStoredTest ==
    /\ phase \in {"stored", "completed"}
    /\ services.now < MaxClock
    /\ IF \A i \in 1..Len(questions) : questions[i].user_response = None
       THEN \* "No questions have been answered", re-raised as a 500
            /\ status' = 500
            /\ UNCHANGED <<analysis, phase>>
       ELSE /\ \E result \in analyze_test_results(questions) : analysis' = Some(result)
            /\ phase' = "completed"
            /\ status' = 200
    /\ services' = [now |-> services.now + 1]
    /\ UNCHANGED <<questions, request, response, files>>

NextResponses == SubmitResponse \/ CompleteStoredTest

SpecResponses == InitResponses /\ [][NextResponses]_vars

(***************************************************************************)
(* Images.  An image is the sequence of its pixels, a pixel the sequence of *)
(* its 8-bit channel values (red, green, blue for an RGB image).            *)
(***************************************************************************)
ChannelLevels == {0, 90, 130, 255}
RgbPixels == {<<r, g, b>> : r \in ChannelLevels, g \in ChannelLevels, b \in ChannelLevels}
RgbImages == SeqsUpTo(RgbPixels, MaxPixels) \ {<<>>}
\* Arrays apply_cvd_filter rejects: no element at all, and four channels (RGBA)
EmptyImage == <<>>
RgbaImage == << <<130, 90, 0, 255>> >>
\* a 2-dimensional (grayscale) array: one value per pixel
GrayImage == << <<130>> >>

IsEmpty(image) == Len(image) = 0
IsThreeChannel(image) == \A i \in 1..Len(image) : Len(image[i]) = 3

(***************************************************************************)
(* ColorVisionProcessor.apply_cvd_filter                                   *)
(***************************************************************************)
\* The matrices of __init__, in millionths
MatrixScale == 1000000
protanopia_matrix ==
    << <<152286, 1052583, -204868>>,
       <<114503, 786281, 99216>>,
       <<-3882, -48116, 1051998>> >>
deuteranopia_matrix ==
    << <<367322, 860646, -227968>>,
       <<280085, 672501, 47413>>,
       <<-11820, 42940, 968881>> >>
tritanopia_matrix ==
    << <<1255528, -76749, -178779>>,
       <<-78411, 930809, 147602>>,
       <<4733, 691367, 303900>> >>

transform_matrix(deficiency_type) ==
    CASE deficiency_type = "protanopia" -> protanopia_matrix
      [] deficiency_type = "deuteranopia" -> deuteranopia_matrix
      [] deficiency_type = "tritanopia" -> tritanopia_matrix

\* np.clip(x * 255, 0, 255).astype(np.uint8) of the exact value num/den (on
\* the 0..255 scale): clipped, then truncated.  An exact value within 1/10000
\* of a whole number is held by the code as a float on either side of it.
ToUint8(num, den) ==
    IF num <= 0 THEN {0}
    ELSE IF num >= 255 * den THEN {255}
    ELSE LET q == num \div den
             r == num % den
             slack == den \div 10000
         IN  {q} \cup (IF r <= slack /\ q >= 1 THEN {q - 1} ELSE {})
                 \cup (IF r >= den - slack THEN {q + 1} ELSE {})

\* max written for min: max(1.0, severity * 2.0)
EffectiveSeverity_Max(severity) == Max(SeverityScale, 2 * severity)

\* The doubling left out: min(1.0, severity)
EffectiveSeverity_Undoubled(severity) == Min(SeverityScale, severity)

\* severity = min(1.0, severity * 2.0), in units of 1 / SeverityScale
EffectiveSeverity(severity) == Min(SeverityScale, 2 * severity)

\* np.dot(reshaped, transform_matrix.T): channel c of the transformed pixel,
\* in millionths of the 0..255 scale
TransformedChannel(pixel, matrix, c) ==
    matrix[c][1] * pixel[1] + matrix[c][2] * pixel[2] + matrix[c][3] * pixel[3]

\* Channel c after the interpolation step, as <<numerator, denominator>>:
\*   if severity < 1.0: (1 - severity) * reshaped + severity * transformed
BlendedChannel(pixel, matrix, c, w) ==
    IF w < SeverityScale
    THEN <<(SeverityScale - w) * pixel[c] * MatrixScale
                + w * TransformedChannel(pixel, matrix, c),
           SeverityScale * MatrixScale>>
    ELSE <<TransformedChannel(pixel, matrix, c), MatrixScale>>

\* The pixels one input pixel can become
FilteredPixels(pixel, matrix, w) ==
    {<<r, g, b>> :
        r \in ToUint8(BlendedChannel(pixel, matrix, 1, w)[1], BlendedChannel(pixel, matrix, 1, w)[2]),
        g \in ToUint8(BlendedChannel(pixel, matrix, 2, w)[1], BlendedChannel(pixel, matrix, 2, w)[2]),
        b \in ToUint8(BlendedChannel(pixel, matrix, 3, w)[1], BlendedChannel(pixel, matrix, 3, w)[2])}

\* All images whose i-th pixel is drawn from choices[i]
RECURSIVE PixelwiseImages(_)
PixelwiseImages(choices) ==
    IF choices = <<>> THEN {<<>>}
    ELSE {<<px>> \o rest : px \in Head(choices), rest \in PixelwiseImages(Tail(choices))}

Raised(error) == [raised |-> TRUE, error |-> error]
Returned(image) == [raised |-> FALSE, image |-> image]

\* The shape check answered with the fallback of the matrix product:
\* return image_array for an image that is not 3-channel
apply_cvd_filter_ReturningOriginal(image_array, deficiency_type, severity) ==
    IF deficiency_type \notin DeficiencyTypeSet
    THEN {Raised("Unknown deficiency type")}
    ELSE IF IsEmpty(image_array)
    THEN {Raised("Input image is empty or None")}
    ELSE IF ~IsThreeChannel(image_array)
    THEN {Returned(image_array)}
    ELSE LET matrix == transform_matrix(deficiency_type)
             w == EffectiveSeverity(severity)
         IN  {Returned(img) : img \in PixelwiseImages(
                [i \in 1..Len(image_array) |-> FilteredPixels(image_array[i], matrix, w)])}

\* Every outcome of apply_cvd_filter(image_array, deficiency_type, severity)
apply_cvd_filter(image_array, deficiency_type, severity) ==
    IF deficiency_type \notin DeficiencyTypeSet
    THEN {Raised("Unknown deficiency type")}
    ELSE IF IsEmpty(image_array)
    THEN {Raised("Input image is empty or None")}
    ELSE IF ~IsThreeChannel(image_array)
    THEN {Raised("Input image must be a 3-channel RGB image")}
    ELSE LET matrix == transform_matrix(deficiency_type)
             w == EffectiveSeverity(severity)
         IN  {Returned(img) : img \in PixelwiseImages(
                [i \in 1..Len(image_array) |-> FilteredPixels(image_array[i], matrix, w)])}

(***************************************************************************)
(* SpecFilter: apply_cvd_filter called once with every image, type and      *)
(* severity of the bounds.                                                  *)
(***************************************************************************)
FilterSeverities == 0..(SeverityScale + 1)

InitFilter ==
    /\ questions = <<>>
    /\ analysis = None
    /\ phase = "call"
    /\ status = 0
    /\ request \in [image : RgbImages \cup {EmptyImage, RgbaImage, GrayImage},
                    deficiency_type : DeficiencyTypeSet \cup {UnknownType},
                    severity : FilterSeverities]
    /\ response = None
    /\ files = {}
    /\ services = None

ApplyCvdFilter ==
    /\ phase = "call"
    /\ \E outcome \in apply_cvd_filter(request.image, request.deficiency_type, request.severity) :
        response' = Some(outcome)
    /\ phase' = "returned"
    /\ UNCHANGED <<questions, analysis, status, request, files, services>>

NextFilter == ApplyCvdFilter

SpecFilter == InitFilter /\ [][NextFilter]_vars

(***************************************************************************)
(* Correction parameters.  A severity vector maps each deficiency type to   *)
(* a severity in hundredths; derived parameters are held in ten-thousandths *)
(* (0.16 is 1600, 1.0 is 10000), hue_rotation in hundredths of a degree.    *)
(***************************************************************************)
CorrectionSeverities == {0, 10, 20}
SeverityVectors == [DeficiencyTypeSet -> CorrectionSeverities]

max_severity(severity_scores) ==
    Max3(severity_scores["protanopia"], severity_scores["deuteranopia"],
         severity_scores["tritanopia"])

\* CVDAnalyzer.generate_correction_filter
generate_correction_filter(severity_scores) ==
    [protanopia_correction |-> severity_scores["protanopia"] * 40,
     deuteranopia_correction |-> severity_scores["deuteranopia"] * 40,
     tritanopia_correction |-> severity_scores["tritanopia"] * 40,
     brightness_adjustment |-> 10000,
     contrast_adjustment |-> 10000,
     saturation_adjustment |-> 10000]

\* ColorVisionProcessor.generate_traditional_filter_params as the class
\* defines it
generate_traditional_filter_params(severity_scores) ==
    [protanopia_correction |-> severity_scores["protanopia"] * 80,
     deuteranopia_correction |-> severity_scores["deuteranopia"] * 80,
     tritanopia_correction |-> severity_scores["tritanopia"] * 80,
     brightness_adjustment |-> 10000 + max_severity(severity_scores) * 10,
     contrast_adjustment |-> 10000 + max_severity(severity_scores) * 15,
     saturation_adjustment |-> 10000 + max_severity(severity_scores) * 20,
     filter_type |-> "traditional"]

\* generate_traditional_filter_params of realtime_filter_methods.py, which
\* patch_color_vision_processor installs over the method of the class
patched_generate_traditional_filter_params(severity_scores) ==
    [protanopia_correction |-> severity_scores["protanopia"] * 80,
     deuteranopia_correction |-> severity_scores["deuteranopia"] * 80,
     tritanopia_correction |-> severity_scores["tritanopia"] * 80,
     brightness_adjustment |-> 10000 + max_severity(severity_scores) * 20,
     contrast_adjustment |-> 10000 + max_severity(severity_scores) * 30,
     saturation_adjustment |-> 10000 + max_severity(severity_scores) * 40,
     hue_rotation |-> severity_scores["protanopia"] * 20
                      - severity_scores["tritanopia"] * 10,
     sepia_amount |-> severity_scores["protanopia"] * 20]

(***************************************************************************)
(* Exact fractions <<numerator, denominator>> with a positive denominator,  *)
(* kept in lowest terms.  A channel value v in [0, 1] is held as 255 * v.   *)
(***************************************************************************)
RECURSIVE GCD(_, _)
GCD(a, b) == IF b = 0 THEN a ELSE GCD(b, a % b)

Rat(n, d) ==
    LET g == GCD(IF n < 0 THEN -n ELSE n, d)
    IN  <<n \div g, d \div g>>

RatMul(x, y) == Rat(x[1] * y[1], x[2] * y[2])
RatAdd(x, y) == Rat(x[1] * y[2] + y[1] * x[2], x[2] * y[2])
RatSub(x, y) == Rat(x[1] * y[2] - y[1] * x[2], x[2] * y[2])
RatGreater(x, y) ==
    LET g == GCD(x[2], y[2])
    IN  x[1] * (y[2] \div g) > y[1] * (x[2] \div g)
OnePlus(x) == Rat(x[2] + x[1], x[2])

\* The outcomes of the float32 comparison x > y.  Exactly equal values that
\* were computed along different paths compare either way; 0 and the
\* clipped 1.0 are exact.
Greater(x, y) ==
    IF x = y
    THEN IF x = <<0, 1>> \/ x = <<255, 1>> THEN {FALSE} ELSE {TRUE, FALSE}
    ELSE {RatGreater(x, y)}

\* np.clip(v, 0, 1) of a channel value
ClipUnit(x) ==
    IF x[1] < 0 THEN <<0, 1>>
    ELSE IF x[1] > 255 * x[2] THEN <<255, 1>>
    ELSE x

\* astype(np.float32) / 255.0 of a pixel
NormalizedPixel(pixel) == <<<<pixel[1], 1>>, <<pixel[2], 1>>, <<pixel[3], 1>>>>

(***************************************************************************)
(* CVDAnalyzer.apply_traditional_correction_filter, pixel by pixel.  Each   *)
(* step yields the set of pixels the float32 computation can produce.       *)
(***************************************************************************)
ProtanopiaBoost(px, filter_params) ==
    LET intensity == Rat(filter_params.protanopia_correction, 10000)
        red == ClipUnit(RatMul(px[1], OnePlus(intensity)))
        shifted == RatMul(px[2], OnePlus(RatMul(intensity, <<15, 100>>)))
    IN  {<<red, IF red_mask THEN shifted ELSE px[2], px[3]>> :
            red_mask \in Greater(red, px[2])}

\* The factor 0.75 left out: intensity = filter_params['deuteranopia_correction']
DeuteranopiaBoost_FullIntensity(px, filter_params) ==
    LET intensity == Rat(filter_params.deuteranopia_correction, 10000)
        green == ClipUnit(RatMul(px[2], OnePlus(intensity)))
        shifted == RatMul(px[3], OnePlus(RatMul(intensity, <<1, 10>>)))
    IN  {<<px[1], green, IF over_red /\ over_blue THEN shifted ELSE px[3]>> :
            over_red \in Greater(green, px[1]), over_blue \in Greater(green, px[3])}

DeuteranopiaBoost(px, filter_params) ==
    LET intensity == RatMul(Rat(filter_params.deuteranopia_correction, 10000), <<3, 4>>)
        green == ClipUnit(RatMul(px[2], OnePlus(intensity)))
        shifted == RatMul(px[3], OnePlus(RatMul(intensity, <<1, 10>>)))
    IN  {<<px[1], green, IF over_red /\ over_blue THEN shifted ELSE px[3]>> :
            over_red \in Greater(green, px[1]), over_blue \in Greater(green, px[3])}

TritanopiaBoost(px, filter_params) ==
    LET intensity == Rat(filter_params.tritanopia_correction, 10000)
        blue == ClipUnit(RatMul(px[3], OnePlus(intensity)))
        enhance == OnePlus(RatMul(intensity, <<2, 10>>))
    IN  {IF red_high /\ green_high /\ blue_low
         THEN <<RatMul(px[1], enhance), RatMul(px[2], enhance), blue>>
         ELSE <<px[1], px[2], blue>> :
            red_high \in Greater(px[1], <<255, 2>>),
            green_high \in Greater(px[2], <<255, 2>>),
            blue_low \in Greater(<<765, 10>>, blue)}

\* _apply_global_adjustments
apply_global_adjustments(px, brightness, contrast, saturation) ==
    LET half == <<255, 2>>
        bright == [c \in 1..3 |-> RatMul(px[c], Rat(brightness, 10000))]
        contrasted == [c \in 1..3 |->
            RatAdd(RatMul(RatSub(bright[c], half), Rat(contrast, 10000)), half)]
        gray == RatAdd(RatAdd(RatMul(contrasted[1], <<299, 1000>>),
                              RatMul(contrasted[2], <<587, 1000>>)),
                       RatMul(contrasted[3], <<114, 1000>>))
        saturated == IF saturation # 10000
                     THEN [c \in 1..3 |->
                            RatAdd(gray, RatMul(Rat(saturation, 10000),
                                                RatSub(contrasted[c], gray)))]
                     ELSE contrasted
    IN  [c \in 1..3 |-> ClipUnit(saturated[c])]

\* np.clip(corrected * 255, 0, 255).astype(np.uint8) of one pixel
QuantizedPixels(px) ==
    {<<r, g, b>> : r \in ToUint8(px[1][1], px[1][2]),
                   g \in ToUint8(px[2][1], px[2][2]),
                   b \in ToUint8(px[3][1], px[3][2])}

\* the corrected pixels the code may produce for one pixel
TraditionalPixels(pixel, severity_scores, filter_params) ==
    LET p0 == {NormalizedPixel(pixel)}
        p1 == IF severity_scores["protanopia"] > 0
              THEN UNION {ProtanopiaBoost(px, filter_params) : px \in p0} ELSE p0
        p2 == IF severity_scores["deuteranopia"] > 0
              THEN UNION {DeuteranopiaBoost(px, filter_params) : px \in p1} ELSE p1
        p3 == IF severity_scores["tritanopia"] > 0
              THEN UNION {TritanopiaBoost(px, filter_params) : px \in p2} ELSE p2
    IN  UNION {QuantizedPixels(apply_global_adjustments(px,
                    filter_params.brightness_adjustment,
                    filter_params.contrast_adjustment,
                    filter_params.saturation_adjustment)) : px \in p3}

\* the images the traditional channel boost may produce
TraditionalCorrection(image, severity_scores) ==
    PixelwiseImages([i \in 1..Len(image) |->
        TraditionalPixels(image[i], severity_scores,
                          generate_correction_filter(severity_scores))])

(***************************************************************************)
(* The two classes that expose the correction methods, and the GAN.         *)
(***************************************************************************)
CorrectionObjects == {"ColorVisionProcessor", "CVDAnalyzer"}

\* the attributes the correction methods look up on self
Attributes(object) ==
    IF object = "ColorVisionProcessor"
    THEN {"gan_generator", "apply_gan_correction_filter",
          "apply_hybrid_correction_filter", "apply_traditional_correction_filter",
          "generate_realtime_filter_params", "generate_traditional_filter_params"}
    ELSE {"generate_correction_filter", "apply_gan_correction_filter",
          "apply_hybrid_correction_filter", "apply_traditional_correction_filter"}

\* what one inference of the generator does: None when it throws, Some(d)
\* when it returns the image with the overlay d (in 8-bit steps, at most a
\* quarter of the range) added to every channel
OverlayShifts == {-63, 0, 63}
GanInferences == {None} \cup {Some(d) : d \in OverlayShifts}

\* restored_image = clamp(cvd_image + blend_weight * overlay_filter, 0, 1)
GanRestored(image, shift) ==
    [i \in 1..Len(image) |-> [c \in 1..3 |-> Min(255, Max(0, image[i][c] + shift))]]

AttributeError(name) ==
    [raised |-> TRUE, error |-> "AttributeError: " \o name,
     image |-> None, strategy |-> "none"]
Result(image, strategy) ==
    [raised |-> FALSE, error |-> "", image |-> image, strategy |-> strategy]

\* apply_gan_correction_filter of either class
apply_gan_correction_filter(object, gan_loaded, image, severity_scores, inference) ==
    IF "gan_generator" \notin Attributes(object)
    THEN {AttributeError("gan_generator")}
    ELSE IF ~gan_loaded THEN {Result(None, "none")}
    ELSE IF inference = None THEN {Result(None, "none")}
    ELSE {Result(Some(GanRestored(image, inference[1])), "gan")}

\* apply_traditional_correction_filter of either class; the lookup of
\* generate_correction_filter happens inside the try block, whose handler
\* returns image_data
apply_traditional_correction_filter(object, image, severity_scores) ==
    IF "generate_correction_filter" \notin Attributes(object)
    THEN {Result(Some(image), "original")}
    ELSE {Result(Some(corrected), "traditional") :
            corrected \in TraditionalCorrection(image, severity_scores)}

\* apply_hybrid_correction_filter of either class
apply_hybrid_correction_filter(object, gan_loaded, image, severity_scores, use_gan, inference) ==
    LET traditional == apply_traditional_correction_filter(object, image, severity_scores)
    IN  IF use_gan /\ "gan_generator" \notin Attributes(object)
        THEN {AttributeError("gan_generator")}
        ELSE IF use_gan /\ gan_loaded
        THEN UNION {IF gan_result.image # None THEN {gan_result} ELSE traditional :
                      gan_result \in apply_gan_correction_filter(
                          object, gan_loaded, image, severity_scores, inference)}
        ELSE traditional

CorrectionTypes == {"gan", "traditional", "hybrid"}

\* filter_method of the hybrid branch of the endpoint
HybridLabel(gan_loaded) ==
    IF gan_loaded THEN "Hybrid (GAN+Traditional)" ELSE "Traditional"

\* corrected_image and filter_method of POST /api/v1/image/apply-correction,
\* which works on the module-level color_processor
apply_correction_filter(gan_loaded, image, severity_scores, use_gan, correction_type, inference) ==
    LET color_processor == "ColorVisionProcessor"
    IN  IF correction_type = "gan" /\ gan_loaded
        THEN {[outcome |-> o, filter_method |-> "GAN"] :
                o \in apply_gan_correction_filter(
                        color_processor, gan_loaded, image, severity_scores, inference)}
        ELSE IF correction_type = "traditional"
        THEN {[outcome |-> o, filter_method |-> "Traditional"] :
                o \in apply_traditional_correction_filter(
                        color_processor, image, severity_scores)}
        ELSE {[outcome |-> o, filter_method |-> HybridLabel(gan_loaded)] :
                o \in apply_hybrid_correction_filter(
                        color_processor, gan_loaded, image, severity_scores,
                        use_gan, inference)}

(***************************************************************************)
(* SpecCorrect: one call of a correction operation on every image and       *)
(* severity vector of the bounds, with and without a GAN generator.         *)
(***************************************************************************)
InitCorrect ==
    /\ questions = <<>>
    /\ analysis = None
    /\ phase = "call"
    /\ status = 0
    /\ request \in [image : RgbImages, severity_scores : SeverityVectors]
    /\ response = None
    /\ files = {}
    /\ services \in [gan_loaded : BOOLEAN, patched : BOOLEAN]

\* a direct call of apply_hybrid_correction_filter
ApplyHybridCorrectionFilter ==
    /\ phase = "call"
    /\ \E object \in CorrectionObjects, use_gan \in BOOLEAN, inference \in GanInferences :
        \E o \in apply_hybrid_correction_filter(object, services.gan_loaded,
                    request.image, request.severity_scores, use_gan, inference) :
            response' = Some([op |-> "apply_hybrid_correction_filter",
                              object |-> object, use_gan |-> use_gan,
                              inference |-> inference, outcome |-> o])
    /\ phase' = "returned"
    /\ UNCHANGED <<questions, analysis, status, request, files, services>>

\* POST /api/v1/image/apply-correction
ApplyCorrectionFilter ==
    /\ phase = "call"
    /\ \E correction_type \in CorrectionTypes, use_gan \in BOOLEAN, inference \in GanInferences :
        \E r \in apply_correction_filter(services.gan_loaded, request.image,
                    request.severity_scores, use_gan, correction_type, inference) :
            IF r.outcome.raised \/ r.outcome.image = None
            THEN /\ status' = 500
                 /\ response' = Some([op |-> "apply_correction_filter",
                                      correction_type |-> correction_type,
                                      use_gan |-> use_gan, inference |-> inference,
                                      outcome |-> r.outcome, filter_method |-> "unknown"])
            ELSE /\ status' = 200
                 /\ response' = Some([op |-> "apply_correction_filter",
                                      correction_type |-> correction_type,
                                      use_gan |-> use_gan, inference |-> inference,
                                      outcome |-> r.outcome,
                                      filter_method |-> r.filter_method])
    /\ phase' = "returned"
    /\ UNCHANGED <<questions, analysis, request, files, services>>

\* cvd_analyzer.generate_correction_filter(severity_scores)
GenerateCorrectionFilter ==
    /\ phase = "call"
    /\ response' = Some([op |-> "generate_correction_filter",
                         params |-> generate_correction_filter(request.severity_scores)])
    /\ phase' = "returned"
    /\ UNCHANGED <<questions, analysis, status, request, files, services>>

\* color_processor.generate_traditional_filter_params(severity_scores)
GenerateTraditionalFilterParams ==
    /\ phase = "call"
    /\ response' = Some([op |-> "generate_traditional_filter_params",
                         params |-> IF services.patched
                                    THEN patched_generate_traditional_filter_params(
                                             request.severity_scores)
                                    ELSE generate_traditional_filter_params(
                                             request.severity_scores)])
    /\ phase' = "returned"
    /\ UNCHANGED <<questions, analysis, status, request, files, services>>

NextCorrect ==
    \/ ApplyHybridCorrectionFilter
    \/ ApplyCorrectionFilter
    \/ GenerateCorrectionFilter
    \/ GenerateTraditionalFilterParams

SpecCorrect == InitCorrect /\ [][NextCorrect]_vars

(***************************************************************************)
(* SpecTraditional: apply_traditional_correction_filter called directly on  *)
(* every image and severity vector of the bounds.                           *)
(***************************************************************************)
InitTraditional ==
    /\ questions = <<>>
    /\ analysis = None
    /\ phase = "call"
    /\ status = 0
    /\ request \in [image : RgbImages, severity_scores : SeverityVectors]
    /\ response = None
    /\ files = {}
    /\ services = None

ApplyTraditionalCorrectionFilter ==
    /\ phase = "call"
    /\ \E object \in CorrectionObjects :
        \E o \in apply_traditional_correction_filter(object, request.image,
                                                     request.severity_scores) :
            response' = Some([op |-> "apply_traditional_correction_filter",
                              object |-> object, outcome |-> o])
    /\ phase' = "returned"
    /\ UNCHANGED <<questions, analysis, status, request, files, services>>

NextTraditional == ApplyTraditionalCorrectionFilter

SpecTraditional == InitTraditional /\ [][NextTraditional]_vars

(***************************************************************************)
(* The test image directory.  A file is its kind and a number:              *)
(* downloaded_test_image_<n>.jpg, test_pattern_<n>.jpg, an image file of    *)
(* another name (other_image) or a file without an image suffix             *)
(* (other_file).                                                            *)
(***************************************************************************)
MaxSourceCount == 1        \* largest count requested from a generator with a directory

DownloadThreshold == 15    \* len(downloaded_images) < 15
StartupDownloads == 20     \* download_test_images(20, ...)
EmergencyDownloads == 10   \* download_test_images(10, ...)
PatternCount == 5          \* patterns of generate_basic_test_images

DownloadedFile(i) == [kind |-> "downloaded_test_image", index |-> i]
PatternFile(i) == [kind |-> "test_pattern", index |-> i]
OtherImage == [kind |-> "other_image", index |-> 1]
OtherFile == [kind |-> "other_file", index |-> 1]

\* f.endswith(('.jpg', '.jpeg', '.png'))
HasImageSuffix(f) == f.kind # "other_file"
\* f.startswith('downloaded_test_image_')
IsDownloaded(f) == f.kind = "downloaded_test_image"
\* f.startswith('test_pattern_')
IsPattern(f) == f.kind = "test_pattern"

\* the directories a generator is constructed on
InitialDirectories ==
    {{DownloadedFile(i) : i \in 1..k} \cup patterns \cup other_images \cup other_files :
        k \in {0, 1, DownloadThreshold},
        patterns \in {{}, {PatternFile(i) : i \in 1..PatternCount}},
        other_images \in {{}, {OtherImage}},
        other_files \in {{}, {OtherFile}}}

\* What one call of download_test_images(count, dir) does: None when it
\* raises, Some(n) when it returns after saving the images 1..n (a failed
\* request is caught inside the loop and saves nothing).
DownloadOutcomes(count) == {None} \cup {Some(n) : n \in {0, 1, count}}

Downloaded(outcome) == {DownloadedFile(i) : i \in 1..outcome[1]}

\* generate_basic_test_images
generate_basic_test_images(dir) == dir \cup {PatternFile(i) : i \in 1..PatternCount}

\* ensure_test_images_exist: the directory it leaves
ensure_test_images_exist(dir, image_downloader, outcome) ==
    LET existing_images == {f \in dir : HasImageSuffix(f)}
        downloaded_images == {f \in existing_images : IsDownloaded(f)}
        fallback == IF existing_images = {}
                    THEN generate_basic_test_images(dir) ELSE dir
        after_download ==
            IF Cardinality(downloaded_images) < DownloadThreshold
            THEN IF image_downloader
                 THEN IF outcome = None THEN fallback
                      ELSE dir \cup Downloaded(outcome)
                 ELSE fallback
            ELSE dir
    IN  IF after_download = {}
        THEN generate_basic_test_images(after_download)
        ELSE after_download

\* The image selection of generate_test_questions: the directory it leaves
\* and the list test_images it draws source images from (empty when it
\* raises 'No test images available').
SelectTestImages(dir, image_downloader, outcome) ==
    LET all_images == {f \in dir : HasImageSuffix(f)}
        downloaded_images == {f \in all_images : IsDownloaded(f)}
        pattern_images == {f \in all_images : IsPattern(f)}
        test_images == downloaded_images \cup pattern_images
    IN  IF test_images # {}
        THEN [dir |-> dir, test_images |-> test_images]
        ELSE IF image_downloader /\ outcome # None
        THEN [dir |-> dir \cup Downloaded(outcome),
              test_images |-> {f \in dir \cup Downloaded(outcome) : HasImageSuffix(f)}]
        ELSE [dir |-> dir, test_images |-> {}]

\* the battery with the source image of every question
WithSources(qs, sources) ==
    [i \in 1..Len(qs) |-> qs[i] @@ [source_image |-> sources[i]]]

(***************************************************************************)
(* SpecImages: a ColorVisionTestGenerator is constructed on a directory and *)
(* asked for a battery.                                                     *)
(***************************************************************************)
InitImages ==
    /\ questions = <<>>
    /\ analysis = None
    /\ phase = "new"
    /\ status = 0
    /\ request = None
    /\ response = None
    /\ files \in InitialDirectories
    /\ services \in [image_downloader : BOOLEAN]

\* ColorVisionTestGenerator.__init__
ConstructTestGenerator ==
    /\ phase = "new"
    /\ \E outcome \in DownloadOutcomes(StartupDownloads) :
        files' = ensure_test_images_exist(files, services.image_downloader, outcome)
    /\ phase' = "constructed"
    /\ UNCHANGED <<questions, analysis, status, request, response, services>>

\* generate_test_questions(count) on the constructed generator
GenerateTestQuestions ==
    /\ phase = "constructed"
    /\ \E count \in 1..MaxSourceCount, outcome \in DownloadOutcomes(EmergencyDownloads) :
        LET selected == SelectTestImages(files, services.image_downloader, outcome)
        IN  /\ files' = selected.dir
            /\ request' = Some([count |-> count])
            /\ IF selected.test_images = {}
               THEN /\ response' = Some([raised |-> TRUE,
                                         error |-> "No test images available"])
                    /\ UNCHANGED questions
               ELSE /\ \E draws \in [IdenticalIndices(count) -> DeficiencyTypeSet],
                          sources \in [1..count -> selected.test_images] :
                        questions' = WithSources(generate_test_questions(count, draws),
                                                 sources)
                    /\ response' = Some([raised |-> FALSE, error |-> ""])
    /\ phase' = "generated"
    /\ UNCHANGED <<analysis, status, services>>

NextImages == ConstructTestGenerator \/ GenerateTestQuestions

SpecImages == InitImages /\ [][NextImages]_vars

(***************************************************************************)
(* ColorVisionProcessor.generate_cvd_confusion_pair on the decoded image.   *)
(* Products of an 8-bit value and a float are float64 values that the       *)
(* assignment into the uint8 array truncates.                               *)
(***************************************************************************)
NumPatches == 5   \* for _ in range(5)

\* the values v whose float64 product v * 1.4, and v * 0.7, is just below the
\* integer it equals in exact arithmetic (90 * 1.4 is 125.99999999999999)
BelowExact14 == {45, 85, 90, 165, 170, 175, 180}
BelowExact07 == {90, 170, 180}

\* the truncation of the float64 product v * (tenths / 10)
Scaled(v, tenths) ==
    LET q == (v * tenths) \div 10
    IN  IF \/ tenths = 14 /\ v \in BelowExact14
           \/ tenths = 7 /\ v \in BelowExact07
        THEN q - 1 ELSE q

\* The uint8 values the assignment of the float x can store: a value out of
\* range is converted with undefined behaviour, wrapping or saturating.
CastUint8(x) == IF x <= 255 THEN {x} ELSE {x % 256, 255}

\* red_mask and the assignments under it
RedToGreen(px) ==
    IF px[1] > 120 /\ px[2] < 100
    THEN <<Scaled(px[1], 3), Scaled(px[2], 14), px[3]>>
    ELSE px

\* one patch over the pixel
Patch(px) == <<Min(255, Scaled(px[1], 7)), Min(255, Scaled(px[2], 13)), px[3]>>

RECURSIVE Patched(_, _)
Patched(px, k) == IF k = 0 THEN px ELSE Patched(Patch(px), k - 1)

\* blue_mask and the assignments under it
BlueToYellow(px) ==
    IF px[3] > 120 /\ px[1] < 100
    THEN {<<r, g, Scaled(px[3], 4)>> :
            r \in CastUint8(Scaled(px[1], 12)), g \in CastUint8(Scaled(px[2], 12))}
    ELSE {px}

\* The confusion images for an image whose pixel i lies under patches[i] of
\* the randomly placed patches.
ConfusionImages(image, deficiency_type, patches) ==
    IF deficiency_type \in {"protanopia", "deuteranopia"}
    THEN {[i \in 1..Len(image) |-> Patched(RedToGreen(image[i]), patches[i])]}
    ELSE IF deficiency_type = "tritanopia"
    THEN PixelwiseImages([i \in 1..Len(image) |-> BlueToYellow(image[i])])
    ELSE {image}

(***************************************************************************)
(* SpecConfusion: generate_cvd_confusion_pair called on every image and     *)
(* type of the bounds.                                                      *)
(***************************************************************************)
InitConfusion ==
    /\ questions = <<>>
    /\ analysis = None
    /\ phase = "call"
    /\ status = 0
    /\ request \in [image : RgbImages, deficiency_type : DeficiencyTypeSet]
    /\ response = None
    /\ files = {}
    /\ services = None

GenerateCvdConfusionPair ==
    /\ phase = "call"
    /\ \E patches \in [1..Len(request.image) -> 0..NumPatches] :
        \E confusion_image \in ConfusionImages(request.image, request.deficiency_type, patches) :
            response' = Some([original |-> request.image,
                              confusion |-> confusion_image,
                              patches |-> patches])
    /\ phase' = "returned"
    /\ UNCHANGED <<questions, analysis, status, request, files, services>>

NextConfusion == GenerateCvdConfusionPair

SpecConfusion == InitConfusion /\ [][NextConfusion]_vars

(***************************************************************************)
(* SpecSingleton: threads calling a lazily constructing getter              *)
(* (get_gan_filter_generator, get_image_download_service) for the first     *)
(* time.  services.handle is the module global, services.constructed the    *)
(* number of instances constructed so far; an instance is its number.       *)
(* phase[t] is the position of thread t in the getter, request[t] the       *)
(* instance it has constructed and not yet stored, response[t] what the     *)
(* getter returned to it.                                                   *)
(***************************************************************************)
MaxThreads == 3
Threads == 1..MaxThreads

InitSingleton ==
    /\ questions = <<>>
    /\ analysis = None
    /\ phase = [t \in Threads |-> "called"]
    /\ status = 0
    /\ request = [t \in Threads |-> None]
    /\ response = [t \in Threads |-> None]
    /\ files = {}
    /\ services = [handle |-> None, constructed |-> 0]

\* if _gan_filter_generator is None:
TestHandle(t) ==
    /\ phase[t] = "called"
    /\ phase' = [phase EXCEPT ![t] = IF services.handle = None
                                     THEN "construct" ELSE "return"]
    /\ UNCHANGED <<questions, analysis, status, request, response, files, services>>

\* GANFilterGenerator()
ConstructInstance(t) ==
    /\ phase[t] = "construct"
    /\ services' = [services EXCEPT !.constructed = @ + 1]
    /\ request' = [request EXCEPT ![t] = Some(services.constructed + 1)]
    /\ phase' = [phase EXCEPT ![t] = "store"]
    /\ UNCHANGED <<questions, analysis, status, response, files>>

\* _gan_filter_generator = <the new instance>
StoreHandle(t) ==
    /\ phase[t] = "store"
    /\ services' = [services EXCEPT !.handle = request[t]]
    /\ phase' = [phase EXCEPT ![t] = "return"]
    /\ UNCHANGED <<questions, analysis, status, request, response, files>>

\* return _gan_filter_generator
ReturnHandle(t) ==
    /\ phase[t] = "return"
    /\ response' = [response EXCEPT ![t] = services.handle]
    /\ phase' = [phase EXCEPT ![t] = "returned"]
    /\ UNCHANGED <<questions, analysis, status, request, files, services>>

NextSingleton ==
    \E t \in Threads :
        \/ TestHandle(t)
        \/ ConstructInstance(t)
        \/ StoreHandle(t)
        \/ ReturnHandle(t)

SpecSingleton == InitSingleton /\ [][NextSingleton]_vars

(***************************************************************************)
(* GANFilterGenerator.  Severities are in hundredths; a condition vector is *)
(* <<protan, deutan, tritan, has_cvd>> with has_cvd 0 or 1.                 *)
(***************************************************************************)
GanSeverities == {0, 5, 10, 30, 70}
GanSeverityVectors == [DeficiencyTypeSet -> GanSeverities]

\* create_condition_vector
create_condition_vector(protanopia_severity, deuteranopia_severity, tritanopia_severity) ==
    LET has_cvd == IF protanopia_severity > 0 \/ deuteranopia_severity > 0
                        \/ tritanopia_severity > 0
                   THEN 1 ELSE 0
    IN  <<protanopia_severity, deuteranopia_severity, tritanopia_severity, has_cvd>>

\* the condition tensor generate_filter_parameters builds inline:
\*   has_cvd = 1.0 if max(...) > 0.1 else 0.0
parameter_condition(severity_scores) ==
    LET protanopia_score == severity_scores["protanopia"]
        deuteranopia_score == severity_scores["deuteranopia"]
        tritanopia_score == severity_scores["tritanopia"]
        has_cvd == IF Max3(protanopia_score, deuteranopia_score, tritanopia_score) > 10
                   THEN 1 ELSE 0
    IN  <<protanopia_score, deuteranopia_score, tritanopia_score, has_cvd>>

\* the (height, width) of an image; target_size of preprocess_image
TargetSize == <<256, 256>>
ImageShapes == {<<1, 1>>, <<256, 256>>, <<480, 640>>}

\* preprocess_image: the shape of the tensor it returns
\*   if image.shape[:2] != target_size: image = cv2.resize(image, target_size)
preprocess_image(shape) == IF shape # TargetSize THEN TargetSize ELSE shape

\* generate_filter(..., return_intermediate=True): raises when the model is
\* not loaded or the inference throws, else returns the generator's outputs,
\* which have the shape of the preprocessed tensor, with the condition vector
\* it was given
generate_filter(model_loaded, shape, severity_scores, inference) ==
    IF ~model_loaded
    THEN [raised |-> TRUE, condition |-> None, overlay |-> None, shape |-> None]
    ELSE LET condition == create_condition_vector(severity_scores["protanopia"],
                                                  severity_scores["deuteranopia"],
                                                  severity_scores["tritanopia"])
         IN  IF inference = None
             THEN [raised |-> TRUE, condition |-> Some(condition), overlay |-> None,
                   shape |-> None]
             ELSE [raised |-> FALSE, condition |-> Some(condition), overlay |-> inference,
                   shape |-> Some(preprocess_image(shape))]

\* The elif chain tested in the opposite order: tritanopia first
get_filter_recommendations_TritanopiaFirst(cvd_results) ==
    LET protanopia_severity == cvd_results["protanopia"]
        deuteranopia_severity == cvd_results["deuteranopia"]
        tritanopia_severity == cvd_results["tritanopia"]
        max_sev == Max3(protanopia_severity, deuteranopia_severity, tritanopia_severity)
        primary_type == IF max_sev = 0 THEN "normal"
                        ELSE IF max_sev = tritanopia_severity THEN "tritanopia"
                        ELSE IF max_sev = deuteranopia_severity THEN "deuteranopia"
                        ELSE "protanopia"
        filter_strength == IF max_sev = 0 THEN "none"
                           ELSE IF max_sev < 30 THEN "mild"
                           ELSE IF max_sev < 70 THEN "moderate"
                           ELSE "strong"
    IN  [primary_cvd_type |-> primary_type, filter_strength |-> filter_strength,
         max_severity |-> max_sev]

\* get_filter_recommendations
get_filter_recommendations(cvd_results) ==
    LET protanopia_severity == cvd_results["protanopia"]
        deuteranopia_severity == cvd_results["deuteranopia"]
        tritanopia_severity == cvd_results["tritanopia"]
        max_sev == Max3(protanopia_severity, deuteranopia_severity, tritanopia_severity)
        primary_type == IF max_sev = 0 THEN "normal"
                        ELSE IF max_sev = protanopia_severity THEN "protanopia"
                        ELSE IF max_sev = deuteranopia_severity THEN "deuteranopia"
                        ELSE "tritanopia"
        filter_strength == IF max_sev = 0 THEN "none"
                           ELSE IF max_sev < 30 THEN "mild"
                           ELSE IF max_sev < 70 THEN "moderate"
                           ELSE "strong"
    IN  [primary_cvd_type |-> primary_type, filter_strength |-> filter_strength,
         max_severity |-> max_sev]

(***************************************************************************)
(* SpecGan: one call of a GANFilterGenerator method on a severity vector.   *)
(***************************************************************************)
InitGan ==
    /\ questions = <<>>
    /\ analysis = None
    /\ phase = "call"
    /\ status = 0
    /\ request \in [severity_scores : GanSeverityVectors, shape : ImageShapes]
    /\ response = None
    /\ files = {}
    /\ services \in [model_loaded : BOOLEAN]

GetFilterRecommendations ==
    /\ phase = "call"
    /\ response' = Some([op |-> "get_filter_recommendations",
                         condition |-> None,
                         outcome |-> Some(get_filter_recommendations(request.severity_scores))])
    /\ phase' = "returned"
    /\ UNCHANGED <<questions, analysis, status, request, files, services>>

GenerateFilter ==
    /\ phase = "call"
    /\ \E inference \in GanInferences :
        LET r == generate_filter(services.model_loaded, request.shape,
                                 request.severity_scores, inference)
        IN  /\ response' = Some([op |-> "generate_filter",
                                 condition |-> r.condition,
                                 outcome |-> IF r.raised THEN None ELSE Some(r)])
            /\ phase' = IF r.raised THEN "raised" ELSE "returned"
    /\ UNCHANGED <<questions, analysis, status, request, files, services>>

\* generate_filter_parameters: the generator returns a tuple, on which
\* output.cpu() raises inside the try block, so the method returns None
\* whether or not the model is loaded; when it is loaded the generator has
\* been called with the condition built inline
GenerateFilterParameters ==
    /\ phase = "call"
    /\ response' = Some([op |-> "generate_filter_parameters",
                         condition |-> IF services.model_loaded
                                       THEN Some(parameter_condition(request.severity_scores))
                                       ELSE None,
                         outcome |-> None])
    /\ phase' = "returned"
    /\ UNCHANGED <<questions, analysis, status, request, files, services>>

NextGan ==
    \/ GetFilterRecommendations
    \/ GenerateFilter
    \/ GenerateFilterParameters

SpecGan == InitGan /\ [][NextGan]_vars

(***************************************************************************)
(* The test store of main.py: data/tests/<test_id>.json and                 *)
(* data/results/<test_id>_results.json.  A test_id is the second of the     *)
(* clock at which it was made and the suffix that follows it.               *)
(***************************************************************************)
MaxSecond == 2      \* the clock shows the seconds 1..MaxSecond
MaxBattery == 2     \* largest count asked of get_test_questions
MaxRequests == 3    \* requests served in one behaviour

\* str(n) for a one-digit n
Decimal(n) == <<"0", "1", "2", "3", "4", "5", "6", "7", "8", "9">>[n + 1]

UserIds == {"u1"}
TestIds == [second : 1..MaxSecond,
            suffix : {Decimal(n) : n \in 1..MaxBattery} \cup UserIds]

\* f"test_{datetime.now().strftime('%Y%m%d_%H%M%S')}_{suffix}"
TestId(now, suffix) == [second |-> now, suffix |-> suffix]

\* the batteries a client can post to create_color_test
PostedBatteries ==
    {Stored(generate_test_questions(1, draws)) :
        draws \in [IdenticalIndices(1) -> DeficiencyTypeSet]}

EmptyStore == [tests |-> [id \in TestIds |-> None], results |-> [id \in TestIds |-> None]]

WriteTest(store, test_id, test_data) ==
    [store EXCEPT !.tests[test_id] = Some(test_data)]

WriteResults(store, test_id, results) ==
    [store EXCEPT !.results[test_id] = Some(results)]

InitStore ==
    /\ questions = <<>>
    /\ analysis = None
    /\ phase = "idle"
    /\ status = 0
    /\ request = None
    /\ response = None
    /\ files = EmptyStore
    /\ services = [now |-> 1, served |-> 0]

Serve == [services EXCEPT !.served = @ + 1]

\* the clock reaches the next second
Tick ==
    /\ phase = "idle"
    /\ services.now < MaxSecond
    /\ services' = [services EXCEPT !.now = @ + 1]
    /\ UNCHANGED <<questions, analysis, phase, status, request, response, files>>

\* GET /api/v1/color-test/questions
StoreTestQuestions ==
    /\ phase = "idle"
    /\ services.served < MaxRequests
    /\ \E count \in 1..MaxBattery :
        \E draws \in [IdenticalIndices(count) -> DeficiencyTypeSet] :
            LET qs == Stored(generate_test_questions(count, draws))
                test_id == TestId(services.now, Decimal(Len(qs)))
                test_data == [test_id |-> test_id, questions |-> qs, completed |-> FALSE]
            IN  /\ files' = WriteTest(files, test_id, test_data)
                /\ response' = Some([op |-> "get_test_questions", test_id |-> test_id])
    /\ status' = 200
    /\ services' = Serve
    /\ UNCHANGED <<questions, analysis, phase, request>>

\* POST /api/v1/color-test/create: test.dict() is stored with the completed
\* flag the client sent
CreateColorTest ==
    /\ phase = "idle"
    /\ services.served < MaxRequests
    /\ \E user_id \in UserIds, qs \in PostedBatteries, completed \in BOOLEAN :
        LET test_id == TestId(services.now, user_id)
            test_data == [test_id |-> test_id, questions |-> qs, completed |-> completed]
        IN  /\ files' = WriteTest(files, test_id, test_data)
            /\ response' = Some([op |-> "create_color_test", test_id |-> test_id])
    /\ status' = 200
    /\ services' = Serve
    /\ UNCHANGED <<questions, analysis, phase, request>>

\* POST /api/v1/color-test/response
StoreTestResponse ==
    /\ phase = "idle"
    /\ services.served < MaxRequests
    /\ \E test_id \in TestIds, user_response \in BOOLEAN :
        IF files.tests[test_id] = None
        THEN \* "Test not found", re-raised as a 500
             /\ status' = 500
             /\ response' = Some([op |-> "submit_test_response", test_id |-> test_id])
             /\ UNCHANGED files
        ELSE LET test_data == files.tests[test_id][1]
             IN  \E question_id \in QuestionIds(test_data.questions) :
                    /\ files' = WriteTest(files, test_id,
                            [test_data EXCEPT !.questions =
                                record_response(test_data.questions, question_id,
                                                user_response, services.now)])
                    /\ response' = Some([op |-> "submit_test_response",
                                         test_id |-> test_id])
                    /\ status' = 200
    /\ services' = Serve
    /\ UNCHANGED <<questions, analysis, phase, request>>

\* POST /api/v1/color-test/complete/{test_id}, up to the write of the results
\* file
CompleteTestSaveResults ==
    /\ phase = "idle"
    /\ services.served < MaxRequests
    /\ \E test_id \in TestIds :
        IF files.tests[test_id] = None
        THEN \* "Test not found", re-raised as a 500
             /\ status' = 500
             /\ response' = Some([op |-> "complete_test", test_id |-> test_id])
             /\ UNCHANGED <<files, phase, request>>
        ELSE LET test_data == files.tests[test_id][1]
             IN  IF \A i \in 1..Len(test_data.questions) :
                        test_data.questions[i].user_response = None
                 THEN \* "No questions have been answered", re-raised as a 500
                      /\ status' = 500
                      /\ response' = Some([op |-> "complete_test", test_id |-> test_id])
                      /\ UNCHANGED <<files, phase, request>>
                 ELSE \E result \in analyze_test_results(test_data.questions),
                         gan_recommendations \in BOOLEAN :
                        /\ files' = WriteResults(files, test_id,
                                [test_id |-> test_id,
                                 analysis |-> result,
                                 recommended_filter |-> generate_correction_filter(result),
                                 filter_method |-> IF gan_recommendations
                                                   THEN "GAN+Traditional"
                                                   ELSE "Traditional"])
                        /\ request' = Some([test_id |-> test_id, test_data |-> test_data])
                        /\ phase' = "results_saved"
                        /\ UNCHANGED <<status, response>>
    /\ services' = Serve
    /\ UNCHANGED <<questions, analysis>>

\* the rest of complete_test: test_data["completed"] = True, written back
CompleteTestMarkCompleted ==
    /\ phase = "results_saved"
    /\ files' = WriteTest(files, request[1].test_id,
                          [request[1].test_data EXCEPT !.completed = TRUE])
    /\ response' = Some([op |-> "complete_test", test_id |-> request[1].test_id])
    /\ status' = 200
    /\ phase' = "idle"
    /\ request' = None
    /\ UNCHANGED <<questions, analysis, services>>

NextStore ==
    \/ Tick
    \/ StoreTestQuestions
    \/ CreateColorTest
    \/ StoreTestResponse
    \/ CompleteTestSaveResults
    \/ CompleteTestMarkCompleted

SpecStore == InitStore /\ [][NextStore]_vars

(***************************************************************************)
(* ImageDownloadService.download_test_images, one step per attempt.         *)
(***************************************************************************)
MaxDownloadCount == 4   \* largest count asked of download_test_images
max_retries == 3        \* self.max_retries

\* what one attempt can do: save the image, receive a status other than 200,
\* or raise (request error, timeout, undecodable image)
AttemptOutcomes == {"saved", "bad_status", "raised"}

\* os.path.join(output_dir, f"downloaded_test_image_{i+1}.jpg") for the
\* 0-based index i
ImagePath(i) == i + 1

\* The break after a success left out: the remaining attempts are made too
AfterAttempt_NoBreak(i, attempt, outcome) ==
    IF attempt + 1 < max_retries
    THEN [i |-> i, attempt |-> attempt + 1]
    ELSE [i |-> i + 1, attempt |-> 0]

\* the position of the two loops after an attempt: a success breaks out of
\* the retry loop, a failure goes on to the next attempt, and the image is
\* left after max_retries attempts
AfterAttempt(i, attempt, outcome) ==
    IF outcome = "saved" THEN [i |-> i + 1, attempt |-> 0]
    ELSE IF attempt + 1 < max_retries
    THEN [i |-> i, attempt |-> attempt + 1]
    ELSE [i |-> i + 1, attempt |-> 0]

InitDownload ==
    /\ questions = <<>>
    /\ analysis = None
    /\ phase = "downloading"
    /\ status = 0
    /\ request \in [count : 0..MaxDownloadCount]
    /\ response = None
    /\ files = {}
    /\ services = [i |-> 0, attempt |-> 0, downloaded_paths |-> <<>>,
                   attempts |-> [n \in 1..request.count |-> 0],
                   succeeded |-> {}]

\* one pass through the body of the retry loop for image i
AttemptDownload ==
    /\ phase = "downloading"
    /\ services.i < request.count
    /\ \E outcome \in AttemptOutcomes :
        LET i == services.i
            next == AfterAttempt(i, services.attempt, outcome)
        IN  /\ services' =
                [i |-> next.i, attempt |-> next.attempt,
                 downloaded_paths |-> IF outcome = "saved"
                                      THEN Append(services.downloaded_paths, ImagePath(i))
                                      ELSE services.downloaded_paths,
                 attempts |-> [services.attempts EXCEPT ![i + 1] = @ + 1],
                 succeeded |-> IF outcome = "saved"
                               THEN services.succeeded \cup {i + 1}
                               ELSE services.succeeded]
            /\ files' = IF outcome = "saved" THEN files \cup {ImagePath(i)} ELSE files
    /\ UNCHANGED <<questions, analysis, phase, status, request, response>>

\* return downloaded_paths, once the loop over range(count) is done
ReturnDownloadedPaths ==
    /\ phase = "downloading"
    /\ services.i = request.count
    /\ response' = Some(services.downloaded_paths)
    /\ phase' = "returned"
    /\ UNCHANGED <<questions, analysis, status, request, files, services>>

NextDownload == AttemptDownload \/ ReturnDownloadedPaths

\* the loops run on: a step that can be taken is taken
SpecDownload == InitDownload /\ [][NextDownload]_vars /\ WF_vars(NextDownload)

(***************************************************************************)
(* Claims about analyze_test_results (SpecScore).                          *)
(***************************************************************************)
Analyzed == phase = "analyzed" /\ analysis # None
Severities == {analysis[1][t] : t \in DeficiencyTypeSet}

\* user_response == correct_answer, user_response given and different
AnsweredCorrectly(q) == q.user_response = Some(q.correct_answer)
AnsweredIncorrectly(q) == q.user_response = Some(~q.correct_answer)
IsSpecific(q) == \E t \in DeficiencyTypeSet : q.question_type = SpecificTag(t)
QuestionSet == {questions[i] : i \in 1..Len(questions)}

\* C1: whatever the questions and the responses, the three severities
\* analyze_test_results returns lie in [0, 0.2].
C1_SeverityWithinCap ==
    Analyzed => \A s \in Severities : 0 <= s /\ s <= 20

\* C1 witness: an analysed battery whose failed specific question drives a
\* severity to the cap itself.
C1_Witness_CapReached ==
    /\ Analyzed
    /\ \E q \in QuestionSet : IsSpecific(q) /\ AnsweredIncorrectly(q)
    /\ 20 \in Severities

AllSpecificCorrect ==
    /\ \E q \in QuestionSet : IsSpecific(q)
    /\ \A q \in QuestionSet : IsSpecific(q) => AnsweredCorrectly(q)

\* C2 as stated: every specific question answered correctly gives no_blindness
\* and severity exactly 0.0 for all three types, whatever the identical
\* questions were answered.
C2_Original_AllZero ==
    (Analyzed /\ AllSpecificCorrect) =>
        (analysis[1].no_blindness = 1 /\ Severities = {0})

\* C2 amended: every specific question answered correctly gives no_blindness
\* and a severity of at most 0.05 for every type, and exactly 0.0 for a type
\* none of whose questions was answered incorrectly.
C2_SpecificCorrectLowSeverity ==
    (Analyzed /\ AllSpecificCorrect) =>
        /\ analysis[1].no_blindness = 1
        /\ \A t \in DeficiencyTypeSet :
            /\ analysis[1][t] <= 5
            /\ (\A q \in QuestionSet : q.filter_type = t => ~AnsweredIncorrectly(q))
                    => analysis[1][t] = 0

\* C2 witness: the specific questions are answered correctly, an identical
\* question is not, and a severity above 0.0 is returned.
C2_Witness_IdenticalPenalty ==
    /\ Analyzed
    /\ AllSpecificCorrect
    /\ \E q \in QuestionSet : ~IsSpecific(q) /\ AnsweredIncorrectly(q)
    /\ \E s \in Severities : s > 0

\* C3: the protanopia_specific question answered incorrectly and every other
\* question answered correctly gives a protanopia severity of exactly 0.15.
C3_ProtanopiaExactly015 ==
    (/\ Analyzed
     /\ \E q \in QuestionSet :
            q.question_type = SpecificTag("protanopia") /\ q.filter_type = "protanopia"
     /\ \A q \in QuestionSet :
            IF q.question_type = SpecificTag("protanopia")
            THEN AnsweredIncorrectly(q) ELSE AnsweredCorrectly(q))
    => analysis[1].protanopia = 15

(***************************************************************************)
(* Claims about the generated battery (SpecBattery).                       *)
(***************************************************************************)
Completed == phase = "completed" /\ analysis # None
EndToEndCount == 10

\* The end-to-end scenario: a battery of 10 questions, every identical
\* question answered correctly and every specific question incorrectly.
EndToEndAnswered ==
    /\ Len(questions) = EndToEndCount
    /\ \A q \in QuestionSet :
        IF q.question_type = "identical" THEN AnsweredCorrectly(q) ELSE AnsweredIncorrectly(q)

\* C4: a battery of 10 generated questions with every identical question
\* answered correctly and every specific question answered incorrectly is
\* scored mild or moderate overall, with every severity at most 0.2, whatever
\* types were drawn for the identical questions.
C4_EndToEndMildOrModerate ==
    (Completed /\ EndToEndAnswered) =>
        /\ analysis[1].overall_severity \in {"mild", "moderate"}
        /\ \A s \in Severities : s <= 20

\* C4 witness: the scenario has been scored, with identical questions of at
\* least two different types in the battery.
C4_Witness_EndToEndScored ==
    /\ Completed
    /\ EndToEndAnswered
    /\ \E a, b \in QuestionSet :
        a.question_type = "identical" /\ b.question_type = "identical"
            /\ a.filter_type # b.filter_type

\* C10: for every requested count the battery holds exactly one
\* '<type>_specific' cvd_confusion question for each of the three types, and
\* more than half of its questions are identical ones.
C10_FixedComposition ==
    phase = "stored" =>
        /\ \A t \in DeficiencyTypeSet :
            Cardinality({i \in 1..Len(questions) :
                /\ questions[i].question_type = SpecificTag(t)
                /\ questions[i].difficulty_level = "cvd_confusion"}) = 1
        /\ 2 * Cardinality({i \in 1..Len(questions) :
                questions[i].question_type = "identical"}) > Len(questions)

(***************************************************************************)
(* Claims about apply_cvd_filter (SpecFilter).                             *)
(***************************************************************************)
FilterReturned == phase = "returned" /\ response # None /\ ~response[1].raised

\* The 8-bit value o is what truncating the exact value num/den can give
\* (values outside 0..255 clipped, 1/10000 of tolerance for the float held).
IsUint8Of(o, num, den) ==
    LET slack == den \div 10000
    IN  /\ o \in 0..255
        /\ (o > 0 => o * den - slack <= num)
        /\ (o < 255 => num <= (o + 1) * den + slack)

\* o is channel c of the pixel (1 - w) * original + w * transformed, for the
\* weight w / SeverityScale and the matrix of type t
IsLinearBlend(o, pixel, t, c, w) ==
    LET m == transform_matrix(t)
        transformed == m[c][1] * pixel[1] + m[c][2] * pixel[2] + m[c][3] * pixel[3]
    IN  IsUint8Of(o, (SeverityScale - w) * pixel[c] * MatrixScale + w * transformed,
                  SeverityScale * MatrixScale)

OutputIsBlendOfWeight(w) ==
    \A i \in 1..Len(request.image) : \A c \in 1..3 :
        IsLinearBlend(response[1].image[i][c], request.image[i],
                      request.deficiency_type, c, w)

\* C8 as stated: for a severity s in [0, 1) every output pixel is the blend
\* (1 - s) * original + s * transformed, with weight s itself.
C8_Original_WeightIsSeverity ==
    (FilterReturned /\ request.severity < SeverityScale) =>
        OutputIsBlendOfWeight(request.severity)

\* C8 amended: for a severity s in [0, 0.5) every output pixel is the blend
\* with weight 2s; every severity >= 0.5 yields the fully transformed pixel.
C8_WeightIsTwiceSeverity ==
    FilterReturned =>
        IF 2 * request.severity < SeverityScale
        THEN OutputIsBlendOfWeight(2 * request.severity)
        ELSE OutputIsBlendOfWeight(SeverityScale)

\* C8 witness: a severity strictly between 0 and 0.5 was applied and changed
\* the image.
C8_Witness_PartialBlend ==
    /\ FilterReturned
    /\ 0 < request.severity /\ 2 * request.severity < SeverityScale
    /\ response[1].image # request.image

AbsDiff(a, b) == IF a < b THEN b - a ELSE a - b

\* C9: with severity 0.0 every output channel value equals the input channel
\* value within one 8-bit step, for each type and every 3-channel image.
C9_IdentityAtZeroSeverity ==
    (FilterReturned /\ request.severity = 0) =>
        /\ Len(response[1].image) = Len(request.image)
        /\ \A i \in 1..Len(request.image) : \A c \in 1..3 :
            AbsDiff(response[1].image[i][c], request.image[i][c]) <= 1

\* C9 witness: severity 0.0 was applied to an image with a pixel that the
\* full transform would change.
C9_Witness_ZeroSeverityApplied ==
    /\ FilterReturned
    /\ request.severity = 0
    /\ \E i \in 1..Len(request.image) : \E c \in 1..3 :
        ~IsLinearBlend(request.image[i][c], request.image[i],
                       request.deficiency_type, c, SeverityScale)

FilterCalled == phase = "returned" /\ response # None

InvalidFilterInput ==
    \/ request.deficiency_type \notin {"protanopia", "deuteranopia", "tritanopia"}
    \/ request.image = <<>>
    \/ \E i \in 1..Len(request.image) : Len(request.image[i]) # 3

\* C21: apply_cvd_filter fails with an error and returns no image whenever the
\* deficiency type is outside {protanopia, deuteranopia, tritanopia} or the
\* image is not a 3-dimensional buffer with exactly 3 channels; the original
\* image is never returned for these inputs.
C21_InvalidInputRaises ==
    (FilterCalled /\ InvalidFilterInput) =>
        /\ response[1].raised
        /\ "image" \notin DOMAIN response[1]

\* C21 witness: a known deficiency type with an image that is not 3-channel
\* was rejected with the shape error.
C21_Witness_ShapeRejected ==
    /\ FilterCalled
    /\ request.deficiency_type \in DeficiencyTypeSet
    /\ request.image \in {RgbaImage, GrayImage}
    /\ response[1].raised
    /\ response[1].error = "Input image must be a 3-channel RGB image"

(***************************************************************************)
(* Claims about the correction operations (SpecCorrect).                   *)
(***************************************************************************)
HybridCalled ==
    /\ phase = "returned"
    /\ response # None
    /\ response[1].op = "apply_hybrid_correction_filter"

\* the model strategy of the object called is unavailable or its inference
\* threw
ModelFailed ==
    \/ response[1].object # "ColorVisionProcessor"
    \/ ~services.gan_loaded
    \/ response[1].inference = None

\* C5: whenever the model strategy is unavailable, returns null or throws,
\* apply_hybrid_correction_filter does not raise and returns a non-null image
\* that is the traditional channel-boost correction of the input for the
\* given severity scores, on both classes and with use_gan true or false.
C5_HybridFallsBackToTraditional ==
    (HybridCalled /\ ModelFailed) =>
        /\ ~response[1].outcome.raised
        /\ response[1].outcome.image # None
        /\ response[1].outcome.image[1] \in
               TraditionalCorrection(request.image, request.severity_scores)

EndpointSucceeded ==
    /\ phase = "returned"
    /\ response # None
    /\ response[1].op = "apply_correction_filter"
    /\ status = 200

NamesGan(filter_method) == filter_method \in {"GAN", "Hybrid (GAN+Traditional)"}

\* C6: the method reported for a hybrid correction names the model only when
\* the returned image is the model strategy's output, and is "Traditional"
\* whenever the fallback produced the returned image.
C6_ReportedMethodIsStrategyUsed ==
    (EndpointSucceeded /\ response[1].correction_type = "hybrid") =>
        /\ NamesGan(response[1].filter_method) => response[1].outcome.strategy = "gan"
        /\ response[1].outcome.strategy # "gan" => response[1].filter_method = "Traditional"

ParamsDerived ==
    /\ phase = "returned"
    /\ response # None
    /\ response[1].op \in {"generate_correction_filter",
                           "generate_traditional_filter_params"}

\* C7: the traditional parameter derivation maps every severity vector to
\* <type>_correction = severity[type] * 0.8 for each type, with brightness,
\* contrast and saturation adjustments all exactly 1.0.
C7_TraditionalDerivation ==
    ParamsDerived =>
        /\ response[1].params.protanopia_correction
               = request.severity_scores["protanopia"] * 80
        /\ response[1].params.deuteranopia_correction
               = request.severity_scores["deuteranopia"] * 80
        /\ response[1].params.tritanopia_correction
               = request.severity_scores["tritanopia"] * 80
        /\ response[1].params.brightness_adjustment = 10000
        /\ response[1].params.contrast_adjustment = 10000
        /\ response[1].params.saturation_adjustment = 10000

(***************************************************************************)
(* Claims about the image sources of a battery (SpecImages).               *)
(***************************************************************************)
Generated == phase = "generated" /\ response # None

\* C11: from any initial content of the test image directory, constructing
\* the generator and calling generate_test_questions never ends in the
\* 'No test images available' error.
C11_NeverNoImagesError ==
    Generated => ~response[1].raised

\* C12: whenever at least one downloaded image is available, every question
\* of a generated battery uses a downloaded image as its source.
C12_DownloadedPreferred ==
    (Generated /\ ~response[1].raised /\ \E f \in files : IsDownloaded(f)) =>
        \A i \in 1..Len(questions) : IsDownloaded(questions[i].source_image)

(***************************************************************************)
(* Claims about confusion pairs (SpecConfusion).                           *)
(***************************************************************************)
PairGenerated ==
    /\ phase = "returned"
    /\ response # None
    /\ DOMAIN response[1] = {"original", "confusion", "patches"}

\* C13: every pair produced by generate_cvd_confusion_pair has a variant that
\* differs from the original in raw RGB in at least one pixel, for every
\* source image and each of the three deficiency types.
C13_VariantDiffers ==
    PairGenerated => response[1].confusion # response[1].original

\* sum over all pixels and channels of |a - b|
RECURSIVE SumAbsDiff(_, _)
SumAbsDiff(a, b) ==
    IF a = <<>> THEN 0
    ELSE AbsDiff(a[1][1], b[1][1]) + AbsDiff(a[1][2], b[1][2])
         + AbsDiff(a[1][3], b[1][3]) + SumAbsDiff(Tail(a), Tail(b))

\* the images apply_cvd_filter returns at full severity
Simulated(image, deficiency_type) ==
    {o.image : o \in apply_cvd_filter(image, deficiency_type, SeverityScale)}

\* C14: for every confusion pair generated for type T, the mean absolute
\* difference between the simulated original and the simulated variant at
\* full severity is strictly smaller than the mean absolute difference
\* between original and variant in raw RGB.
C14_ConfusionReducesDistance ==
    PairGenerated =>
        \A so \in Simulated(response[1].original, request.deficiency_type),
           sv \in Simulated(response[1].confusion, request.deficiency_type) :
            SumAbsDiff(so, sv) < SumAbsDiff(response[1].original, response[1].confusion)

\* C14 restricted to the pairs whose variant differs from the original
C14_ReducesDistanceWhenChanged ==
    (PairGenerated /\ response[1].confusion # response[1].original) =>
        C14_ConfusionReducesDistance

(***************************************************************************)
(* Claims about the responses of a stored test (SpecResponses).            *)
(***************************************************************************)
\* C15: once submit_test_response has recorded user_response for a question,
\* no later operation changes that question's user_response or timestamp,
\* and no question is ever removed from the battery.
C15_ResponseAttachedOnce ==
    [][/\ Len(questions') = Len(questions)
       /\ \A i \in 1..Len(questions) :
            /\ questions'[i].question_id = questions[i].question_id
            /\ questions[i].user_response # None =>
                /\ questions'[i].user_response = questions[i].user_response
                /\ questions'[i].timestamp = questions[i].timestamp]_vars

(***************************************************************************)
(* Claims about the lazily constructed handles (SpecSingleton).            *)
(***************************************************************************)
\* C16: under any interleaving of concurrent first calls exactly one
\* instance is constructed, every caller receives that same instance, and
\* the handle is never replaced after first construction.
C16_InitialisedOnce ==
    /\ services.constructed <= 1
    /\ \A t \in Threads : \A u \in Threads :
        (phase[t] = "returned" /\ phase[u] = "returned") => response[t] = response[u]

(***************************************************************************)
(* Further claims about analyze_test_results (SpecScore).                  *)
(***************************************************************************)
\* a question the scoring loop skips
Ignored(q) == q.user_response = None \/ q.filter_type \notin DeficiencyTypeSet

RemoveAt(qs, i) == [j \in 1..(Len(qs) - 1) |-> IF j < i THEN qs[j] ELSE qs[j + 1]]

RECURSIVE WithoutIgnored(_)
WithoutIgnored(qs) ==
    IF qs = <<>> THEN <<>>
    ELSE IF Ignored(Head(qs)) THEN WithoutIgnored(Tail(qs))
    ELSE <<Head(qs)>> \o WithoutIgnored(Tail(qs))

\* C17: questions whose user_response is None and questions whose filter_type
\* is not one of the three deficiency types are ignored: the call returns a
\* result, and removing any one of them, or all of them, leaves the returned
\* result unchanged.
C17_IgnoredQuestionsHaveNoEffect ==
    phase = "analyzed" =>
        /\ analysis # None
        /\ analysis[1] \in analyze_test_results(WithoutIgnored(questions))
        /\ \A i \in 1..Len(questions) :
            Ignored(questions[i]) =>
                analyze_test_results(RemoveAt(questions, i)) = analyze_test_results(questions)

\* C17 witness: a scored list that holds an unanswered question, a question
\* of an unrecognised type and an incorrectly answered one.
C17_Witness_IgnoredBesideError ==
    /\ Analyzed
    /\ \E q \in QuestionSet : q.user_response = None /\ q.filter_type \in DeficiencyTypeSet
    /\ \E q \in QuestionSet : q.user_response # None /\ q.filter_type = UnknownType
    /\ \E q \in QuestionSet : ~Ignored(q) /\ AnsweredIncorrectly(q)
    /\ \E s \in Severities : s > 0

(***************************************************************************)
(* Claims about the traditional image correction (SpecTraditional).        *)
(***************************************************************************)
TraditionalApplied ==
    /\ phase = "returned"
    /\ response # None
    /\ response[1].op = "apply_traditional_correction_filter"
    /\ response[1].outcome.strategy = "traditional"

\* intensity = severity x 0.4 for every type
IntensityAsStated(severity_scores, t) == Rat(severity_scores[t] * 4, 1000)

\* intensity = severity x 0.4 for protanopia and tritanopia, severity x 0.3
\* for deuteranopia
IntensityAsCoded(severity_scores, t) ==
    IF t = "deuteranopia"
    THEN Rat(severity_scores[t] * 3, 1000)
    ELSE Rat(severity_scores[t] * 4, 1000)

\* the gains of one type applied to a pixel whose channels are fractions:
\* primary channel p times 1 + i, clipped; where the condition holds, the
\* secondary channels times 1 + i * weight
GainStep(px, t, i) ==
    IF t = "protanopia"
    THEN LET red == ClipUnit(RatMul(px[1], OnePlus(i)))
         IN  {<<red, IF c THEN RatMul(px[2], OnePlus(RatMul(i, <<15, 100>>))) ELSE px[2],
                px[3]>> : c \in Greater(red, px[2])}
    ELSE IF t = "deuteranopia"
    THEN LET green == ClipUnit(RatMul(px[2], OnePlus(i)))
         IN  {<<px[1], green,
                IF c1 /\ c2 THEN RatMul(px[3], OnePlus(RatMul(i, <<1, 10>>))) ELSE px[3]>> :
                c1 \in Greater(green, px[1]), c2 \in Greater(green, px[3])}
    ELSE LET blue == ClipUnit(RatMul(px[3], OnePlus(i)))
             gain == OnePlus(RatMul(i, <<2, 10>>))
         IN  {IF c1 /\ c2 /\ c3
              THEN <<RatMul(px[1], gain), RatMul(px[2], gain), blue>>
              ELSE <<px[1], px[2], blue>> :
                c1 \in Greater(px[1], <<255, 2>>), c2 \in Greater(px[2], <<255, 2>>),
                c3 \in Greater(<<765, 10>>, blue)}

\* the 8-bit pixels the gains give for one pixel, the types with severity > 0
\* applied in the order protanopia, deuteranopia, tritanopia
GainedPixels(pixel, severity_scores, Intensity(_, _)) ==
    LET Step(pxs, t) ==
            IF severity_scores[t] > 0
            THEN UNION {GainStep(px, t, Intensity(severity_scores, t)) : px \in pxs}
            ELSE pxs
        p3 == Step(Step(Step({NormalizedPixel(pixel)}, "protanopia"),
                        "deuteranopia"), "tritanopia")
    IN  UNION {QuantizedPixels(px) : px \in p3}

CorrectedImage == response[1].outcome.image[1]

\* C18 as stated: after the traditional correction every pixel is the input
\* pixel with, for each type of severity > 0, its primary channel times
\* 1 + intensity and its secondary channels times 1 + intensity x 0.15, x 0.1
\* and x 0.2, where intensity = severity x 0.4 for all three types.
C18_Original_SameIntensityForAllTypes ==
    TraditionalApplied =>
        \A i \in 1..Len(request.image) :
            CorrectedImage[i] \in GainedPixels(request.image[i],
                                               request.severity_scores, IntensityAsStated)

\* C18: after the traditional correction every pixel is the input pixel with,
\* for each type of severity > 0, its primary channel times 1 + intensity and
\* its secondary channels times 1 + intensity x 0.15, x 0.1 and x 0.2, where
\* intensity = severity x 0.4 for protanopia and tritanopia and
\* severity x 0.4 x 0.75 for deuteranopia.
C18_TraditionalGains ==
    TraditionalApplied =>
        \A i \in 1..Len(request.image) :
            CorrectedImage[i] \in GainedPixels(request.image[i],
                                               request.severity_scores, IntensityAsCoded)

\* a deuteranopia correction that changed the green channel of a pixel
C18_Witness_GreenBoosted ==
    /\ TraditionalApplied
    /\ request.severity_scores["deuteranopia"] > 0
    /\ \E i \in 1..Len(request.image) : CorrectedImage[i][2] # request.image[i][2]

(***************************************************************************)
(* Claims about GANFilterGenerator (SpecGan).                               *)
(***************************************************************************)
Recommended ==
    /\ response # None
    /\ response[1].op = "get_filter_recommendations"

Recommendation == response[1].outcome[1]

TypeOrder == <<"protanopia", "deuteranopia", "tritanopia">>

\* the largest of the three severities
LargestSeverity(severity_scores) ==
    CHOOSE m \in {severity_scores[t] : t \in DeficiencyTypeSet} :
        \A t \in DeficiencyTypeSet : severity_scores[t] <= m

\* the first type, in TypeOrder, whose severity is the largest
FirstLargest(severity_scores) ==
    TypeOrder[CHOOSE i \in 1..3 :
        /\ severity_scores[TypeOrder[i]] = LargestSeverity(severity_scores)
        /\ \A j \in 1..(i - 1) :
            severity_scores[TypeOrder[j]] # LargestSeverity(severity_scores)]

\* C19: the recommendation's primary type is the type with the maximum
\* severity, ties resolved in the order protanopia, deuteranopia, tritanopia,
\* and it is "normal" exactly when the maximum severity is 0.
C19_PrimaryTypeIsFirstMaximum ==
    Recommended =>
        /\ (Recommendation.primary_cvd_type = "normal")
                <=> (LargestSeverity(request.severity_scores) = 0)
        /\ LargestSeverity(request.severity_scores) > 0 =>
                Recommendation.primary_cvd_type = FirstLargest(request.severity_scores)

\* a recommendation for a vector whose non-zero maximum is shared by
\* deuteranopia and tritanopia but not by protanopia
C19_Witness_TieResolved ==
    /\ Recommended
    /\ request.severity_scores["deuteranopia"] = request.severity_scores["tritanopia"]
    /\ request.severity_scores["deuteranopia"] > request.severity_scores["protanopia"]
    /\ Recommendation.primary_cvd_type = "deuteranopia"

ConditionBuilt ==
    /\ response # None
    /\ response[1].condition # None

\* C20: every condition vector the code builds has has_cvd = 1 exactly when
\* at least one of the three severities is > 0, and has_cvd = 0 otherwise.
C20_HasCvdIffAnySeverityPositive ==
    ConditionBuilt =>
        LET condition == response[1].condition[1]
        IN  /\ condition[4] \in {0, 1}
            /\ (condition[4] = 1)
                <=> (\E t \in DeficiencyTypeSet : request.severity_scores[t] > 0)

(***************************************************************************)
(* Claims about the test store (SpecStore).                                 *)
(***************************************************************************)
\* C22: in every state of the test store, the intermediate states of
\* complete_test included, a test whose completed flag is true has a results
\* record stored for its test_id.
C22_CompletedImpliesScored ==
    \A test_id \in TestIds :
        (files.tests[test_id] # None /\ files.tests[test_id][1].completed)
            => files.results[test_id] # None

\* C22 restricted to the tests that get_test_questions made
C22_CompletedImpliesScoredForGenerated ==
    \A test_id \in TestIds :
        (/\ test_id.suffix \notin UserIds
         /\ files.tests[test_id] # None
         /\ files.tests[test_id][1].completed)
            => files.results[test_id] # None

\* C29: a call of get_test_questions never writes over a test that is
\* already stored.
C29_BatteryNeverOverwritten ==
    [][StoreTestQuestions =>
        \A test_id \in TestIds :
            files.tests[test_id] # None => files'.tests[test_id] = files.tests[test_id]]_vars

(***************************************************************************)
(* Claims about the classification and the independence of the types        *)
(* (SpecScore).                                                             *)
(***************************************************************************)
\* C23: analyze_test_results never returns overall_severity 'moderate' or
\* 'severe': the maximum severity is below 0.35 and the result is 'none' or
\* 'mild'.
C23_NeverModerateOrSevere ==
    Analyzed =>
        /\ analysis[1].overall_severity \in {"none", "mild"}
        /\ \A s \in Severities : s < 35

\* C23 witness: a result whose largest severity is the cap 0.2, classified
\* 'mild'.
C23_Witness_MildAtCap ==
    /\ Analyzed
    /\ \E s \in Severities : s = 20
    /\ analysis[1].overall_severity = "mild"

\* C24: no_blindness is set exactly when overall_severity is 'none', and every
\* severity lies in [0, 0.05] or in [0.15, 0.2].
C24_NoBlindnessIffNone ==
    Analyzed =>
        /\ (analysis[1].no_blindness = 1) <=> (analysis[1].overall_severity = "none")
        /\ \A s \in Severities : s \in (0..5) \cup (15..20)

\* C24 witness: one type at the upper end 0.05 of the low range beside a type
\* in the high range.
C24_Witness_BothRanges ==
    /\ Analyzed
    /\ \E s \in Severities : s = 5
    /\ \E s \in Severities : s >= 15
    /\ analysis[1].no_blindness = 0

\* the question list with the response of question i replaced
Reanswered(qs, i, r) == [qs EXCEPT ![i].user_response = r]

\* the score data the loop accumulates for the list qs
ScoresOf(qs) == AccumulateScores(InitialScores, qs)

SetMax(S) == CHOOSE x \in S : \A y \in S : y <= x
SetMin(S) == CHOOSE x \in S : \A y \in S : x <= y

\* C25: changing the user_response of a question of filter_type T leaves the
\* severities of the other two types unchanged, and turning a correct answer
\* into an incorrect one never decreases the severity of T.
C25_TypesScoredIndependently ==
    Analyzed =>
        LET scores == ScoresOf(questions)
        IN  \A i \in 1..Len(questions) :
            /\ \A r \in Responses :
                LET changed == ScoresOf(Reanswered(questions, i, r))
                IN  \A t \in DeficiencyTypeSet \ {questions[i].filter_type} :
                        /\ TypeSeverity(changed[t]) = TypeSeverity(scores[t])
                        /\ analysis[1][t] \in TypeSeverity(changed[t])
            /\ (AnsweredCorrectly(questions[i]) /\ questions[i].filter_type \in DeficiencyTypeSet) =>
                LET T == questions[i].filter_type
                    before == TypeSeverity(scores[T])
                    after == TypeSeverity(ScoresOf(
                        Reanswered(questions, i, Some(~questions[i].correct_answer)))[T])
                IN  after = before \/ SetMax(before) <= SetMin(after)

\* C25 witness: a scored list with answered questions of two types, one of
\* them answered correctly and the other incorrectly with a severity above 0.
C25_Witness_TwoTypesAnswered ==
    /\ Analyzed
    /\ \E a, b \in QuestionSet :
        /\ a.filter_type \in DeficiencyTypeSet /\ b.filter_type \in DeficiencyTypeSet
        /\ a.filter_type # b.filter_type
        /\ AnsweredCorrectly(a) /\ AnsweredIncorrectly(b)
        /\ analysis[1][b.filter_type] > 0
        /\ analysis[1][a.filter_type] = 0

(***************************************************************************)
(* Claims about the tritanopia confusion edit (SpecConfusion).              *)
(***************************************************************************)
UnderBlueMask(pixel) == pixel[3] > 120 /\ pixel[1] < 100

\* C26: in the tritanopia edit, for every pixel with blue > 120 and red < 100
\* the variant's red and green values are each at least the original's and at
\* most 255: the x1.2 result is saturated, never stored modulo 256.
C26_TritanopiaScalingSaturates ==
    (PairGenerated /\ request.deficiency_type = "tritanopia") =>
        \A i \in 1..Len(response[1].original) :
            UnderBlueMask(response[1].original[i]) =>
                \A c \in {1, 2} :
                    /\ response[1].confusion[i][c] >= response[1].original[i][c]
                    /\ response[1].confusion[i][c] <= 255

(***************************************************************************)
(* Claims about the two copies of the traditional correction                *)
(* (SpecTraditional).                                                       *)
(***************************************************************************)
TraditionalCalled ==
    /\ phase = "returned"
    /\ response # None
    /\ response[1].op = "apply_traditional_correction_filter"

\* every channel of every pixel strictly inside the 8-bit range
NonSaturated(image) ==
    \A i \in 1..Len(image) : \A c \in 1..3 : 0 < image[i][c] /\ image[i][c] < 255

\* the images the method of one class can return for the request
TraditionalImages(object) ==
    {o.image : o \in apply_traditional_correction_filter(
                        object, request.image, request.severity_scores)}

\* C27: for the same image and severity scores the methods of the two classes
\* return the same image (some image is a possible result of both), and with
\* some severity > 0 on a non-saturated image the result differs from the
\* input.
C27_TraditionalCopiesEquivalent ==
    TraditionalCalled =>
        /\ TraditionalImages("ColorVisionProcessor") \cap TraditionalImages("CVDAnalyzer") # {}
        /\ (/\ \E t \in DeficiencyTypeSet : request.severity_scores[t] > 0
            /\ NonSaturated(request.image))
                => response[1].outcome.image # Some(request.image)

(***************************************************************************)
(* Claims about the shape of the model-based correction (SpecGan).          *)
(***************************************************************************)
FilterGenerated ==
    /\ response # None
    /\ response[1].op = "generate_filter"
    /\ response[1].outcome # None

\* C28: the image the model-based correction returns has the height and the
\* width of its input image.
C28_RestoredHasInputShape ==
    FilterGenerated => response[1].outcome[1].shape = Some(request.shape)

(***************************************************************************)
(* Claims about download_test_images (SpecDownload).                        *)
(***************************************************************************)
TotalAttempts ==
    LET RECURSIVE Sum(_)
        Sum(n) == IF n = 0 THEN 0 ELSE services.attempts[n] + Sum(n - 1)
    IN  Sum(request.count)

DownloadBounded ==
    /\ phase \in {"downloading", "returned"}
    /\ \A n \in 1..request.count : services.attempts[n] <= 3
    /\ TotalAttempts <= 3 * request.count
    /\ Len(services.downloaded_paths) <= request.count
    /\ \A a, b \in 1..Len(services.downloaded_paths) :
        a # b => services.downloaded_paths[a] # services.downloaded_paths[b]
    /\ {services.downloaded_paths[a] : a \in 1..Len(services.downloaded_paths)}
            = services.succeeded
    /\ phase = "returned" =>
        /\ response = Some(services.downloaded_paths)
        /\ \A n \in 1..request.count :
            n \notin services.succeeded => services.attempts[n] = 3

\* no attempt is made for an image that has been saved
StopsAfterSuccess ==
    \A n \in 1..request.count :
        n \in services.succeeded => services'.attempts[n] = services.attempts[n]

\* C30: download_test_images terminates without raising: each image gets at
\* most 3 attempts and none after its first success, at most 3 x count
\* attempts are made, and the call returns between 0 and count paths, one for
\* each image that had a successful attempt.
C30_DownloadTerminatesBounded ==
    /\ []DownloadBounded
    /\ [][StopsAfterSuccess]_vars
    /\ <>(phase = "returned")

\* C30 witness: a call that returned with one image saved at its last attempt
\* and another given up after three failures.
C30_Witness_RetriedAndGivenUp ==
    /\ phase = "returned"
    /\ \E n \in services.succeeded : services.attempts[n] = 3
    /\ \E n \in 1..request.count : n \notin services.succeeded

====
